---- MODULE Spec2Model ----
(***************************************************************************)
(* Model of the hotel pricing mock service (frontend/src/services/mockApi): *)
(* generatePricingData, generateRevenueAnalytics and the mockApi entry      *)
(* points that call them.                                                   *)
(*                                                                          *)
(* Numbers.  The JavaScript code computes in IEEE doubles; the model        *)
(* computes the same expressions in exact rational arithmetic, every        *)
(* quantity being an integer numerator over a fixed denominator:            *)
(*   money            cents                                                 *)
(*   Math.random()    k / RandDen, k < RandDen              (so r < 1)      *)
(*   demand           dn / DemandDen                                        *)
(*   priceMultiplier  mn / MultDen                                          *)
(*   adjustment       an / AdjDen                                           *)
(*   occupancy        on / OccDen                                           *)
(* Math.round(x) is floor(x + 1/2) (RoundDiv).                              *)
(*                                                                          *)
(* Dates.  A Date is an instant, counted in hours since                     *)
(* 2025-01-01T00:00Z.  The local-time accessors of Date (getDate, setDate,  *)
(* getDay, getMonth, new Date(y, m, d)) see the instant shifted by the      *)
(* time zone offset tz of the environment; toISOString() sees it in UTC.    *)
(* The offset is constant during a run (no daylight-saving change).         *)
(* A calendar day is an integer, day 0 being 2025-01-01.                    *)
(*                                                                          *)
(* Lists.  A loop iteration is two steps: the body builds the object        *)
(* (pricedDay, bucket), the push appends it.  The object is held in full    *)
(* while it is built; of the objects already pushed the lists pricingData   *)
(* and analytics keep the date (no code reads any other field of them       *)
(* before the call returns).                                                *)
(***************************************************************************)
EXTENDS Integers, Sequences, FiniteSets, TLC

\* Math.random() takes RandSteps evenly spaced values (and one value next to 1) in
\* generatePricingData
RandSteps == 4

\* Math.random() is drawn from the grid k / AnalyticsRandSteps in generateRevenueAnalytics
AnalyticsRandSteps == 2

\* longest explicit date range (endDate - startDate, in days) a caller asks for
MaxSpanDays == 9

\* absent value (null): a nullable value is <<>> or the one-element tuple <<v>>
Null == <<>>

\* A JavaScript number that a division may have made non-finite is a record: its kind
\* ("finite", "NaN", "Infinity", "-Infinity") and, when finite, its value.
Finite(v) == [kind |-> "finite", val |-> v]

\* not-a-number, the result of 0 / 0
NaN == [kind |-> "NaN", val |-> 0]

\* the result of x / 0 for x > 0
PosInfinity == [kind |-> "Infinity", val |-> 0]

\* the result of x / 0 for x < 0
NegInfinity == [kind |-> "-Infinity", val |-> 0]

\* Number.isFinite(x)
IsFinite(x) == x.kind = "finite"

(***************************************************************************)
(* State                                                                    *)
(***************************************************************************)
VARIABLE tz  \* the environment's time zone: local time = UTC + tz hours

\* mockApi.getPricingRecommendations and generatePricingData
VARIABLES
  pricingPc,        \* "idle", "running" (inside generatePricingData), "done", "error" (threw)
  pricingArgs,      \* the arguments of the call: hotelId, startDate, days, roomTypeId
  hotelRoomTypes,   \* the room types the forEach still has to visit, the current one first
  pricingI,         \* the loop variable i of generatePricingData
  pricingData,      \* the list built by generatePricingData: the date of every record pushed
  pricedDay,        \* the record built by the current iteration: <<record>>, Null once pushed
  recommendations,  \* room type id -> the object stored for it
  pricingResponse   \* the object returned: <<response>>, or Null

pricingVars ==
  <<pricingPc, pricingArgs, hotelRoomTypes, pricingI, pricingData, pricedDay,
    recommendations, pricingResponse>>

\* mockApi.getRevenueAnalytics and generateRevenueAnalytics
VARIABLES
  analyticsPc,      \* "idle", "running" (inside generateRevenueAnalytics), "done"
  analyticsArgs,    \* the arguments of the call: hotelId, startDate, endDate, groupBy
  analyticsDays,    \* days, as computed from endDate
  analyticsStart,   \* the Date object new Date(startDate) handed to generateRevenueAnalytics
  analyticsI,       \* the loop variable i of generateRevenueAnalytics
  analytics,        \* the list built: the date (and days) of every entry pushed
  bucket,           \* the entry built by the current iteration: <<entry>>, Null once pushed
  analyticsResult   \* the object returned: <<result>>, or Null

analyticsVars ==
  <<analyticsPc, analyticsArgs, analyticsDays, analyticsStart, analyticsI, analytics,
    bucket, analyticsResult>>

\* the price multiplier as a function of demand over the whole of [0, 1]
VARIABLES
  demandIn,         \* a demand probability, as a numerator over DemandDen
  multiplierOut     \* <<priceMultiplier computed for demandIn>>, or Null before it is computed

multiplierVars == <<demandIn, multiplierOut>>

\* the body of the loop of generatePricingData as a function of room type, date and demand
VARIABLES
  engineRoomType,   \* the room type priced (any configuration record, shipped or not)
  engineDate,       \* the date priced, an instant
  engineDemand,     \* the demand probability priced, as a numerator over DemandDen
  enginePricedDay,  \* <<the record computed>>, or Null before it is computed
  enginePricedAgain \* <<the record computed a second time from the same inputs>>, or Null

engineVars ==
  <<engineRoomType, engineDate, engineDemand, enginePricedDay, enginePricedAgain>>

\* the map of getContributionMarginAnalytics over one entry of the revenue analytics
VARIABLES
  contributionRoomTypes, \* hotelRoomTypes: the room types of the hotel asked for
  revenueItem,           \* <<the entry of revenueData.analytics>>, or Null before it is generated
  contributionItem,      \* <<the entry returned for it>>, or Null before it is mapped
  occupancyItem          \* <<the entry getOccupancyAnalytics returns for it>>, or Null

contributionVars == <<contributionRoomTypes, revenueItem, contributionItem, occupancyItem>>

\* calls of the service in flight at the same time
VARIABLES
  roomTypeStore,  \* the module's roomTypes array, which every call reads
  dateObjects,    \* the caller's Date objects handed to every call as startDate and endDate:
                  \* startDate is an instant, endDate is <<an instant>> or Null (no endDate)
  calls           \* the calls, by slot: position, arguments, draws, result

callVars == <<roomTypeStore, dateObjects, calls>>

\* the progress of the operations of the service through their timers and loops
VARIABLES
  operations,     \* the operations, by slot: function, position, arguments, loop counters
  running         \* the slot whose synchronous code the event loop is running, or 0

operationVars == <<operations, running>>

\* the App component of the frontend, its router and the browser's localStorage
VARIABLES
  token,            \* localStorage has an item 'token'
  isAuthenticated,  \* state of App
  isLoading,        \* state of App
  location,         \* the path the router is at
  element,          \* what App renders there
  submits,          \* the handleSubmit calls of Login that await their timer
  loggedOut         \* not state of the program: a logout has happened and no login has
                    \* completed since

authVars == <<token, isAuthenticated, isLoading, location, element, submits, loggedOut>>

\* the ThemeProvider component, the document root and the browser's localStorage
VARIABLES
  colorTheme,     \* localStorage 'color-theme': <<the string stored>>, or Null
  prefersDark,    \* window.matchMedia('(prefers-color-scheme: dark)').matches
  htmlClasses,    \* the classes the document root has when the page is loaded
  rootClasses,    \* window.document.documentElement.classList
  theme,          \* state of ThemeProvider: <<theme>>, or Null while it is not mounted
  effectPending,  \* the effect of the last render has not run yet
  themesBefore    \* not state of the program: the themes that were current before the
                  \* last toggleTheme calls since the mount, two at most, the latest last

themeVars ==
  <<colorTheme, prefersDark, htmlClasses, rootClasses, theme, effectPending, themesBefore>>

vars ==
  <<tz, pricingVars, analyticsVars, multiplierVars, engineVars, contributionVars, callVars,
    operationVars, authVars, themeVars>>

\* what a step of getPricingRecommendations leaves alone
notPricingVars == <<tz, analyticsVars, multiplierVars, engineVars, contributionVars, callVars, operationVars, authVars, themeVars>>

\* what a step of getRevenueAnalytics leaves alone
notAnalyticsVars == <<tz, pricingVars, multiplierVars, engineVars, contributionVars, callVars, operationVars, authVars, themeVars>>

\* what the computation of a multiplier leaves alone
notMultiplierVars == <<tz, pricingVars, analyticsVars, engineVars, contributionVars, callVars, operationVars, authVars, themeVars>>

\* what the pricing of one day leaves alone
notEngineVars ==
  <<tz, pricingVars, analyticsVars, multiplierVars, contributionVars, callVars,
    operationVars, authVars, themeVars>>

\* what the contribution map of one entry leaves alone
notContributionVars ==
  <<tz, pricingVars, analyticsVars, multiplierVars, engineVars, callVars, operationVars, authVars, themeVars>>

\* what a step of a call in flight leaves alone
notCallVars ==
  <<tz, pricingVars, analyticsVars, multiplierVars, engineVars, contributionVars,
    operationVars, authVars, themeVars>>

\* what a step of an operation's progress leaves alone
notOperationVars ==
  <<tz, pricingVars, analyticsVars, multiplierVars, engineVars, contributionVars, callVars,
    authVars, themeVars>>

\* what a step of the App component leaves alone
notAuthVars ==
  <<tz, pricingVars, analyticsVars, multiplierVars, engineVars, contributionVars, callVars,
    operationVars, themeVars>>

\* what a step of the ThemeProvider component leaves alone
notThemeVars ==
  <<tz, pricingVars, analyticsVars, multiplierVars, engineVars, contributionVars, callVars,
    operationVars, authVars>>

(***************************************************************************)
(* Configuration: the room types shipped with the mock service.            *)
(***************************************************************************)
roomTypes ==
  << [id |-> 1, hotel_id |-> 1, base_price |-> 19900, variable_cost |-> 4500, inventory_count |-> 40],
     [id |-> 2, hotel_id |-> 1, base_price |-> 29900, variable_cost |-> 6500, inventory_count |-> 30],
     [id |-> 3, hotel_id |-> 1, base_price |-> 49900, variable_cost |-> 9500, inventory_count |-> 15],
     [id |-> 4, hotel_id |-> 2, base_price |-> 14900, variable_cost |-> 3500, inventory_count |-> 50],
     [id |-> 5, hotel_id |-> 2, base_price |-> 22900, variable_cost |-> 5500, inventory_count |-> 35],
     [id |-> 6, hotel_id |-> 3, base_price |-> 16900, variable_cost |-> 4000, inventory_count |-> 45],
     [id |-> 7, hotel_id |-> 3, base_price |-> 24900, variable_cost |-> 6000, inventory_count |-> 30] >>

\* roomTypes.find(rt => rt.id === roomTypeId): <<the first match>>, or Null
FindRoomType(roomTypeId) ==
  LET HasId(rt) == rt.id = roomTypeId
      found == SelectSeq(roomTypes, HasId)
  IN  IF found = <<>> THEN Null ELSE <<Head(found)>>

\* roomTypes.filter(rt => rt.hotel_id === hotelId)
HotelRoomTypes(hotelId) ==
  LET OfHotel(rt) == rt.hotel_id = hotelId
  IN  SelectSeq(roomTypes, OfHotel)

\* roomTypeId ? roomTypes.filter(id and hotel match) : roomTypes.filter(hotel matches)
SelectRoomTypes(hotelId, roomTypeId) ==
  LET Both(rt) == rt.id = roomTypeId[1] /\ rt.hotel_id = hotelId
  IN  IF roomTypeId # Null THEN SelectSeq(roomTypes, Both) ELSE HotelRoomTypes(hotelId)

(***************************************************************************)
(* Arithmetic                                                               *)
(***************************************************************************)
\* Math.round(n / d) for d > 0: the nearest integer, halves going up
RoundDiv(n, d) == (2 * n + d) \div (2 * d)

\* Math.ceil(n / d) for d > 0
CeilDiv(n, d) == -((-n) \div d)

Min(a, b) == IF a <= b THEN a ELSE b

Max(a, b) == IF a >= b THEN a ELSE b

\* denominator of the values of Math.random() in generatePricingData
RandDen == 4 * RandSteps

\* denominator of demand: 0.2 + r * 0.7 = (2*RandDen + 7*k) / (10*RandDen)
DemandDen == 10 * RandDen

\* denominator of priceMultiplier
MultDen == 3 * DemandDen

\* denominator of adjustment: -0.1 + r * 0.25 = (5*k - 2*RandDen) / (20*RandDen)
AdjDen == 20 * RandDen

\* denominator of the efficiency factor: 0.8 + r * 0.4 = (8*RandDen + 4*k) / (10*RandDen)
EffDen == 10 * RandDen

\* denominator of occupancy = demand * efficiency
OccDen == DemandDen * EffDen

\* the values Math.random() takes in generatePricingData, as numerators over RandDen:
\* 0, 1/RandSteps, .., (RandSteps-1)/RandSteps, and the value next to 1, 1 - 1/RandDen
Random == {4 * k : k \in 0 .. (RandSteps - 1)} \cup {RandDen - 1}

\* demand without its floor of 0.2 (mutation of Demand)
DemandFromZero(k) == 7 * k

\* demand = 0.2 + Math.random() * 0.7, as a numerator over DemandDen
Demand(k) == 2 * RandDen + 7 * k

\* priceMultiplier with the premium slope halved (mutation of PriceMultiplier)
PriceMultiplierHalfPremium(dn) ==
  IF 10 * dn <= 3 * DemandDen THEN (6 * MultDen) \div 10 + 4 * dn
  ELSE IF 10 * dn >= 7 * DemandDen THEN MultDen + (10 * dn - 7 * DemandDen) \div 2
  ELSE MultDen

\* priceMultiplier with the discount zone starting at 0.5 instead of 0.6 (mutation of PriceMultiplier)
PriceMultiplierDeepDiscount(dn) ==
  IF 10 * dn <= 3 * DemandDen THEN (5 * MultDen) \div 10 + 4 * dn
  ELSE IF 10 * dn >= 7 * DemandDen THEN MultDen + (10 * dn - 7 * DemandDen)
  ELSE MultDen

\* priceMultiplier with a discount zone that falls from 1.0 to 0.6 as demand rises
\* (mutation of PriceMultiplier)
PriceMultiplierFallingDiscount(dn) ==
  IF 10 * dn <= 3 * DemandDen THEN MultDen - 4 * dn
  ELSE IF 10 * dn >= 7 * DemandDen THEN MultDen + (10 * dn - 7 * DemandDen)
  ELSE MultDen

\* the three-way branch on demand; the numerator of priceMultiplier over MultDen.
\*   demand <= 0.3 :  0.6 + (demand / 0.3) * 0.4
\*                    = (0.6 * MultDen + 4 * dn) / MultDen
\*   demand >= 0.7 :  1.0 + ((demand - 0.7) / 0.3) * 1.0
\*                    = (MultDen + 10 * dn - 7 * DemandDen) / MultDen
\*   otherwise     :  1.0
PriceMultiplier(dn) ==
  IF 10 * dn <= 3 * DemandDen THEN (6 * MultDen) \div 10 + 4 * dn
  ELSE IF 10 * dn >= 7 * DemandDen THEN MultDen + (10 * dn - 7 * DemandDen)
  ELSE MultDen

(***************************************************************************)
(* Dates                                                                    *)
(***************************************************************************)
\* date.toISOString().split('T')[0]: the calendar day of the instant in UTC
ToISODate(t) == t \div 24

\* new Date("YYYY-MM-DD"): a date-only string is parsed as midnight UTC
ParseISODate(day) == 24 * day

\* the calendar day of the instant in local time (what getDate/getMonth/getFullYear see)
LocalDay(t) == (t + tz) \div 24

\* date.setDate(date.getDate() + i): i local days later, same local time of day
AddDays(t, i) == t + 24 * i

\* date.getDay(): the local day of the week, 0 = Sunday (day 0, 2025-01-01, is a Wednesday)
GetDay(t) == (LocalDay(t) + 3) % 7

\* the first days of the months 2024-12 .. 2026-01
MonthStarts == {-31, 0, 31, 59, 90, 120, 151, 181, 212, 243, 273, 304, 334, 365}

\* the first day of the calendar month that contains the day
FirstOfMonth(day) == CHOOSE f \in MonthStarts : f <= day /\ \A g \in MonthStarts : g <= day => g <= f

\* new Date(year, month, 1): midnight LOCAL time of the first day of the local month of t
NewDateFirstOfMonth(t) == 24 * FirstOfMonth(LocalDay(t)) - tz

\* groupDate.setDate(groupDate.getDate() - day + (day === 0 ? -6 : 1))
SetDateMonday(t) ==
  LET day == GetDay(t)
  IN  AddDays(t, (-day) + (IF day = 0 THEN -6 ELSE 1))

\* the bucket date of a day: the day itself, the Monday of its week, the first of its month
GroupDate(t, groupBy) ==
  IF groupBy = "week" THEN SetDateMonday(t)
  ELSE IF groupBy = "month" THEN NewDateFirstOfMonth(t)
  ELSE t

\* the time zones the service is run in
TimeZones == {-5, 0, 2}

\* the startDate arguments: 2025-01-28T00:00Z (a date string) and 2025-02-27T22:00Z (a "now")
StartInstants == {24 * 27, 24 * 57 + 22}

(***************************************************************************)
(* generatePricingData                                                      *)
(***************************************************************************)
\* the loop bound of generatePricingData: for (let i = 0; i < 30; i++)
PricingDays == 30

\* Math.random() < 0.1
IsOverride(k) == 10 * k < RandDen

\* adjustment = -0.1 + Math.random() * 0.25, as a numerator over AdjDen
Adjustment(k) == 5 * k - 2 * RandDen

\* suggestedPrice computed from the multiplier as it is reported, rounded to 2 decimals
\* (mutation of SuggestedPrice)
SuggestedPriceFromReported(roomType, mn) ==
  RoundDiv(roomType.base_price * RoundDiv(mn * 100, MultDen), 100)

\* suggestedPrice raised to stay above the variable cost (mutation of SuggestedPrice)
SuggestedPriceFloored(roomType, mn) ==
  Max(RoundDiv(roomType.base_price * mn, MultDen), roomType.variable_cost + 1)

\* suggestedPrice = Math.round(roomType.base_price * priceMultiplier * 100) / 100, in cents
SuggestedPrice(roomType, mn) == RoundDiv(roomType.base_price * mn, MultDen)

\* finalPrice = Math.round(suggestedPrice * (1 + adjustment) * 100) / 100, in cents
OverridePrice(suggestedPrice, an) == RoundDiv(suggestedPrice * (AdjDen + an), AdjDen)

\* occupancy without the clamp (mutation of Occupancy)
OccupancyUnclamped(dn, k) == dn * (8 * RandDen + 4 * k)

\* occupancy = Math.min(0.95, Math.max(0.1, demand * (0.8 + Math.random() * 0.4))),
\* as a numerator over OccDen
Occupancy(dn, k) ==
  Min((95 * OccDen) \div 100, Max((10 * OccDen) \div 100, dn * (8 * RandDen + 4 * k)))

\* contributionMargin taken from the suggested price (mutation of ContributionMargin)
ContributionMarginOfSuggested(roomType, suggestedPrice, finalPrice) ==
  suggestedPrice - roomType.variable_cost

\* contributionMargin = finalPrice - roomType.variable_cost, in cents
ContributionMargin(roomType, suggestedPrice, finalPrice) ==
  finalPrice - roomType.variable_cost

\* the fixed note attached to an overridden price
OverrideNote == "Manual adjustment for market conditions"

\* the override with the note left out (mutation of Override)
OverrideWithoutNote(suggestedPrice, isOverride, an) ==
  IF isOverride
    THEN [finalPrice |-> OverridePrice(suggestedPrice, an), overrideNotes |-> Null]
    ELSE [finalPrice |-> suggestedPrice, overrideNotes |-> Null]

\* the override with the adjustment doubled (mutation of Override)
OverrideDoubled(suggestedPrice, isOverride, an) ==
  IF isOverride
    THEN [finalPrice |-> OverridePrice(suggestedPrice, 2 * an), overrideNotes |-> <<OverrideNote>>]
    ELSE [finalPrice |-> suggestedPrice, overrideNotes |-> Null]

\* let finalPrice = suggestedPrice; let overrideNotes = null; if (isOverride) { ... }
Override(suggestedPrice, isOverride, an) ==
  IF isOverride
    THEN [finalPrice |-> OverridePrice(suggestedPrice, an), overrideNotes |-> <<OverrideNote>>]
    ELSE [finalPrice |-> suggestedPrice, overrideNotes |-> Null]

\* the percentage cut off instead of rounded (mutation of MarginPercentage)
MarginPercentageTruncated(contributionMargin, finalPrice) ==
  IF finalPrice # 0 THEN Finite((contributionMargin * 10000) \div finalPrice)
  ELSE IF contributionMargin = 0 THEN NaN
  ELSE IF contributionMargin < 0 THEN NegInfinity
  ELSE PosInfinity

\* contributionMarginPercentage = (contributionMargin / finalPrice) * 100, reported as
\* Math.round(contributionMarginPercentage * 100) / 100, in hundredths of a percent;
\* a division by 0 gives NaN (0 / 0) or an infinity, and Math.round keeps them
MarginPercentage(contributionMargin, finalPrice) ==
  IF finalPrice # 0 THEN Finite(RoundDiv(contributionMargin * 10000, finalPrice))
  ELSE IF contributionMargin = 0 THEN NaN
  ELSE IF contributionMargin < 0 THEN NegInfinity
  ELSE PosInfinity

\* expectedBookings computed from the occupancy as it is reported, rounded to 2 decimals
\* (mutation of ExpectedBookings)
ExpectedBookingsFromReported(occupancy, roomType) ==
  RoundDiv(RoundDiv(occupancy * 100, OccDen) * roomType.inventory_count, 10)

\* expectedBookings = Math.round(occupancy * roomType.inventory_count * 10) / 10, in tenths
\* of a booking
ExpectedBookings(occupancy, roomType) ==
  RoundDiv(occupancy * roomType.inventory_count * 10, OccDen)

\* expectedRevenue taken from the suggested price (mutation of ExpectedRevenue)
ExpectedRevenueOfSuggested(expectedBookings, suggestedPrice, finalPrice) ==
  RoundDiv(expectedBookings * suggestedPrice, 10)

\* expectedRevenue = expectedBookings * finalPrice, reported as
\* Math.round(expectedRevenue * 100) / 100, in cents
ExpectedRevenue(expectedBookings, suggestedPrice, finalPrice) ==
  RoundDiv(expectedBookings * finalPrice, 10)

\* expectedContribution = expectedBookings * contributionMargin, reported as
\* Math.round(expectedContribution * 100) / 100, in cents
ExpectedContribution(expectedBookings, contributionMargin) ==
  RoundDiv(expectedBookings * contributionMargin, 10)

\* The loop body after the demand is drawn: the record pushed for roomType on the date
\* (an instant) at the demand (a numerator over DemandDen).  kOverride, kAdjust, kEff
\* are the Math.random() draws that follow, in the order of the code (kAdjust is only
\* drawn, and only used, when the day is overridden).
\* demand, adjustment and occupancy are not fields of the pushed object: they record
\* the local variables.
PriceDay(roomType, date, demand, kOverride, kAdjust, kEff) ==
  LET priceMultiplier == PriceMultiplier(demand)
      suggestedPrice == SuggestedPrice(roomType, priceMultiplier)
      isOverride == IsOverride(kOverride)
      adjustment == Adjustment(kAdjust)
      ov == Override(suggestedPrice, isOverride, adjustment)
      finalPrice == ov.finalPrice
      occupancy == Occupancy(demand, kEff)
      contributionMargin == ContributionMargin(roomType, suggestedPrice, finalPrice)
      expectedBookings == ExpectedBookings(occupancy, roomType)
  IN  [ date |-> ToISODate(date),
        room_type_id |-> roomType.id,
        base_price |-> roomType.base_price,
        variable_cost |-> roomType.variable_cost,
        demand_probability |-> RoundDiv(demand * 100, DemandDen),
        price_multiplier |-> RoundDiv(priceMultiplier * 100, MultDen),
        suggested_price |-> suggestedPrice,
        final_price |-> finalPrice,
        is_override |-> isOverride,
        override_notes |-> ov.overrideNotes,
        contribution_margin |-> contributionMargin,
        contribution_margin_percentage |-> MarginPercentage(contributionMargin, finalPrice),
        expected_occupancy |-> RoundDiv(occupancy * 100, OccDen),
        expected_bookings |-> expectedBookings,
        expected_revenue |-> ExpectedRevenue(expectedBookings, suggestedPrice, finalPrice),
        expected_contribution |-> ExpectedContribution(expectedBookings, contributionMargin),
        demand |-> demand,
        occupancy |-> occupancy,
        adjustment |-> IF isOverride THEN <<adjustment>> ELSE Null ]

\* One iteration of the loop body: the record pushed for day i of roomType, kDemand
\* being the first Math.random() draw of the iteration.
PricedDay(roomType, startDate, i, kDemand, kOverride, kAdjust, kEff) ==
  PriceDay(roomType, AddDays(startDate, i), Demand(kDemand), kOverride, kAdjust, kEff)

(***************************************************************************)
(* mockApi.getPricingRecommendations                                        *)
(***************************************************************************)
\* the hotelId arguments: the three hotels and an id no hotel has
HotelIdArgs == {1, 2, 3, 9}

\* the roomTypeId arguments: none, a room type of hotel 1, a room type of hotel 2
RoomTypeIdArgs == {Null, <<1>>, <<5>>}

\* the days arguments
DaysArgs == {7, 30}

PricingInit ==
  /\ pricingPc = "idle"
  /\ pricingArgs = Null
  /\ hotelRoomTypes = <<>>
  /\ pricingI = 0
  /\ pricingData = <<>>
  /\ pricedDay = Null
  /\ recommendations = <<>>
  /\ pricingResponse = Null

\* the call, up to the first generatePricingData: select the room types, throw if there are none
GetPricingRecommendations(hotelId, startDate, days, roomTypeId) ==
  /\ pricingPc = "idle"
  /\ pricingArgs' = <<[hotelId |-> hotelId, startDate |-> startDate, days |-> days,
                       roomTypeId |-> roomTypeId]>>
  /\ hotelRoomTypes' = SelectRoomTypes(hotelId, roomTypeId)
  /\ pricingPc' = IF hotelRoomTypes' = <<>> THEN "error" ELSE "running"
  /\ UNCHANGED <<pricingI, pricingData, pricedDay, recommendations, pricingResponse>>
  /\ UNCHANGED notPricingVars

\* the body of one iteration of the loop of generatePricingData for the current room
\* type, up to the object that pricingData.push is handed
GeneratePricingDataStep ==
  /\ pricingPc = "running"
  /\ pricingI < PricingDays
  /\ pricedDay = Null
  /\ \E kDemand \in Random, kOverride \in Random, kEff \in Random :
       \E kAdjust \in (IF IsOverride(kOverride) THEN Random ELSE {0}) :
         pricedDay' = <<PricedDay(Head(hotelRoomTypes), pricingArgs[1].startDate, pricingI,
                                  kDemand, kOverride, kAdjust, kEff)>>
  /\ UNCHANGED <<pricingPc, pricingArgs, hotelRoomTypes, pricingI, pricingData,
                 recommendations, pricingResponse>>
  /\ UNCHANGED notPricingVars

\* pricingData.push(...) and i++: the end of the iteration
GeneratePricingDataPush ==
  /\ pricingPc = "running"
  /\ pricedDay # Null
  /\ pricingData' = Append(pricingData, pricedDay[1].date)
  /\ pricingI' = pricingI + 1
  /\ pricedDay' = Null
  /\ UNCHANGED <<pricingPc, pricingArgs, hotelRoomTypes, recommendations, pricingResponse>>
  /\ UNCHANGED notPricingVars

\* generatePricingData returns; the forEach stores the entry and goes on to the next room
\* type, or getPricingRecommendations returns the response after the last one
GeneratePricingDataReturn ==
  /\ pricingPc = "running"
  /\ pricingI >= PricingDays
  /\ pricedDay = Null
  /\ LET roomType == Head(hotelRoomTypes)
         entry == [room_type_id |-> roomType.id,
                   base_price |-> roomType.base_price,
                   variable_cost |-> roomType.variable_cost,
                   inventory_count |-> roomType.inventory_count,
                   prices |-> pricingData]
     IN  /\ recommendations' = Append(recommendations, entry)
         /\ hotelRoomTypes' = Tail(hotelRoomTypes)
         /\ IF hotelRoomTypes' = <<>>
              THEN /\ pricingPc' = "done"
                   /\ pricingResponse' =
                        <<[hotel_id |-> pricingArgs[1].hotelId,
                           start_date |-> ToISODate(pricingArgs[1].startDate),
                           days |-> pricingArgs[1].days,
                           recommendations |-> recommendations']>>
                   /\ UNCHANGED <<pricingI, pricingData>>
              ELSE /\ pricingI' = 0
                   /\ pricingData' = <<>>
                   /\ UNCHANGED <<pricingPc, pricingResponse>>
  /\ UNCHANGED <<pricingArgs, pricedDay>>
  /\ UNCHANGED notPricingVars

NextPricing ==
  \/ \E hotelId \in HotelIdArgs, startDate \in StartInstants, days \in DaysArgs,
        roomTypeId \in RoomTypeIdArgs :
        GetPricingRecommendations(hotelId, startDate, days, roomTypeId)
  \/ GeneratePricingDataStep
  \/ GeneratePricingDataPush
  \/ GeneratePricingDataReturn

(***************************************************************************)
(* generateRevenueAnalytics                                                 *)
(***************************************************************************)
\* the values Math.random() takes in generateRevenueAnalytics, over AnalyticsRandSteps
AnalyticsRandom == 0 .. (AnalyticsRandSteps - 1)

\* denominator of revenue, in cents: avgPrice = base_price * (0.9 + r * 0.3)
\*   = base_price * (9*AnalyticsRandSteps + 3*k) / (10*AnalyticsRandSteps)
RevDen == 10 * AnalyticsRandSteps

\* occupiedRooms = Math.round(roomType.inventory_count * occupancy),
\* occupancy = 0.4 + Math.random() * 0.5 = (4*AnalyticsRandSteps + 5*k) / (10*AnalyticsRandSteps)
OccupiedRooms(roomType, k) ==
  RoundDiv(roomType.inventory_count * (4 * AnalyticsRandSteps + 5 * k), 10 * AnalyticsRandSteps)

\* revenue = occupiedRooms * avgPrice, as a numerator over RevDen (cents)
Revenue(roomType, kOcc, kPrice) ==
  OccupiedRooms(roomType, kOcc) * roomType.base_price * (9 * AnalyticsRandSteps + 3 * kPrice)

\* the entry of roomTypeBreakdown for one room type
Breakdown(roomType, kOcc, kPrice) ==
  [ room_type_id |-> roomType.id,
    revenue |-> RoundDiv(Revenue(roomType, kOcc, kPrice), RevDen),
    rooms |-> roomType.inventory_count,
    occupied |-> OccupiedRooms(roomType, kOcc),
    occupancy_rate |-> RoundDiv((4 * AnalyticsRandSteps + 5 * kOcc) * 100, 10 * AnalyticsRandSteps) ]

\* Math.round((n / d) * 10000) for d > 0, in steps of two decimals so that no
\* intermediate value exceeds the range of the model's integers
RoundTenThousandths(n, d) ==
  LET q0 == n \div d
      r0 == n % d
      q1 == (r0 * 100) \div d
      r1 == (r0 * 100) % d
  IN  q0 * 10000 + q1 * 100 + RoundDiv(r1 * 100, d)

\* Math.round((n / d) * 10000) in JavaScript, in ten-thousandths, for d >= 0:
\* a division by 0 is NaN (0 / 0) or an infinity, and Math.round keeps those
DivideRounded(n, d) ==
  IF d # 0 THEN Finite(RoundTenThousandths(n, d))
  ELSE IF n = 0 THEN NaN
  ELSE IF n < 0 THEN NegInfinity
  ELSE PosInfinity

\* sum of f[1] .. f[n]
RECURSIVE SumTo(_, _)
SumTo(f, n) == IF n = 0 THEN 0 ELSE f[n] + SumTo(f, n - 1)

\* The entry pushed for one group date: the forEach over the hotel's room types, draws[n]
\* being the two Math.random() draws <<occupancy, price>> made for the n-th room type.
\* days is not a field of the pushed object: it records the loop indices i whose
\* generated figures are part of the entry's totals.
Bucket(rts, groupDate, i, draws) ==
  LET N == Len(rts)
      totalRevenue == SumTo([n \in 1..N |-> Revenue(rts[n], draws[n][1], draws[n][2])], N)
      totalRooms == SumTo([n \in 1..N |-> rts[n].inventory_count], N)
      totalOccupied == SumTo([n \in 1..N |-> OccupiedRooms(rts[n], draws[n][1])], N)
      \* overallOccupancy = totalOccupied / totalRooms, rounded to 4 decimals: NaN
      \* for a hotel without a room to sell
  IN  [ date |-> ToISODate(groupDate),
        total_revenue |-> RoundDiv(totalRevenue, RevDen),
        total_rooms |-> totalRooms,
        total_occupied |-> totalOccupied,
        occupancy_rate |-> DivideRounded(totalOccupied, totalRooms),
        room_types |-> [n \in 1..N |-> Breakdown(rts[n], draws[n][1], draws[n][2])],
        days |-> {i} ]

\* the search for an entry of the group date that never finds one (mutation of ExistingIndex)
ExistingIndexNever(list, groupDate) == -1

\* analytics.findIndex(a => new Date(a.date).toISOString().split('T')[0]
\*                          === groupDate.toISOString().split('T')[0]):
\* the 0-based index of the first such entry, or -1
ExistingIndex(list, groupDate) ==
  LET hits == {n \in 1..Len(list) :
                 ToISODate(ParseISODate(list[n].date)) = ToISODate(groupDate)}
  IN  IF hits = {} THEN -1
      ELSE (CHOOSE n \in hits : \A m \in hits : n <= m) - 1

\* insert e into the list sorted by new Date(a.date) - new Date(b.date), after its equals
RECURSIVE InsertByDate(_, _)
InsertByDate(list, e) ==
  IF list = <<>> THEN <<e>>
  ELSE IF ParseISODate(e.date) - ParseISODate(Head(list).date) < 0 THEN <<e>> \o list
  ELSE <<Head(list)>> \o InsertByDate(Tail(list), e)

\* the sort left out (mutation of SortByDate)
SortByDateReversed(list) == [n \in 1..Len(list) |-> list[Len(list) + 1 - n]]

\* analytics.sort((a, b) => new Date(a.date) - new Date(b.date))
RECURSIVE SortByDate(_)
SortByDate(list) ==
  IF list = <<>> THEN <<>>
  ELSE InsertByDate(SortByDate(SubSeq(list, 1, Len(list) - 1)), list[Len(list)])

(***************************************************************************)
(* mockApi.getRevenueAnalytics                                              *)
(***************************************************************************)
\* the default of days when no endDate is given: endDate ? ... : 30
DefaultDays == 30

\* the groupBy arguments
GroupByArgs == {"day", "week", "month"}

\* the endDate arguments for a startDate: none, a whole number of days after it (or
\* one day before it), and a day and a half after it
EndDateArgs(startDate) ==
  {Null} \cup {<<startDate + 24 * n>> : n \in (-1) .. MaxSpanDays} \cup {<<startDate + 36>>}

AnalyticsInit ==
  /\ analyticsPc = "idle"
  /\ analyticsArgs = Null
  /\ analyticsDays = 0
  /\ analyticsStart = Null
  /\ analyticsI = 0
  /\ analytics = <<>>
  /\ bucket = Null
  /\ analyticsResult = Null

\* days = endDate ? Math.ceil((new Date(endDate) - new Date(startDate)) / (1000*60*60*24)) : 30
DaysOf(startDate, endDate) ==
  IF endDate # Null THEN CeilDiv(endDate[1] - startDate, 24) ELSE DefaultDays

\* the call, up to the loop of generateRevenueAnalytics; a hotel without room types
\* gets { analytics: [] } at once
GetRevenueAnalytics(hotelId, startDate, endDate, groupBy) ==
  /\ analyticsPc = "idle"
  /\ analyticsArgs' = <<[hotelId |-> hotelId, startDate |-> startDate, endDate |-> endDate,
                         groupBy |-> groupBy]>>
  /\ analyticsDays' = DaysOf(startDate, endDate)
  /\ analyticsStart' = <<startDate>>
  /\ IF HotelRoomTypes(hotelId) = <<>>
       THEN /\ analyticsPc' = "done"
            /\ analyticsResult' = <<[analytics |-> <<>>]>>
       ELSE /\ analyticsPc' = "running"
            /\ UNCHANGED analyticsResult
  /\ UNCHANGED <<analyticsI, analytics, bucket>>
  /\ UNCHANGED notAnalyticsVars

\* the body of one iteration of the loop of generateRevenueAnalytics: an iteration whose
\* group date has an entry already ends at once (continue), any other builds the
\* object that analytics.push is handed
GenerateRevenueAnalyticsStep ==
  /\ analyticsPc = "running"
  /\ analyticsI < analyticsDays
  /\ bucket = Null
  /\ LET rts == HotelRoomTypes(analyticsArgs[1].hotelId)
         date == AddDays(analyticsStart[1], analyticsI)
         groupDate == GroupDate(date, analyticsArgs[1].groupBy)
     IN  IF ExistingIndex(analytics, groupDate) >= 0
           THEN /\ analyticsI' = analyticsI + 1
                /\ UNCHANGED bucket
           ELSE /\ \E draws \in [1..Len(rts) -> AnalyticsRandom \X AnalyticsRandom] :
                     bucket' = <<Bucket(rts, groupDate, analyticsI, draws)>>
                /\ UNCHANGED analyticsI
  /\ UNCHANGED <<analyticsPc, analyticsArgs, analyticsDays, analyticsStart, analytics,
                 analyticsResult>>
  /\ UNCHANGED notAnalyticsVars

\* analytics.push(...) and i++: the end of the iteration
GenerateRevenueAnalyticsPush ==
  /\ analyticsPc = "running"
  /\ bucket # Null
  /\ analytics' = Append(analytics, [date |-> bucket[1].date, days |-> bucket[1].days])
  /\ analyticsI' = analyticsI + 1
  /\ bucket' = Null
  /\ UNCHANGED <<analyticsPc, analyticsArgs, analyticsDays, analyticsStart, analyticsResult>>
  /\ UNCHANGED notAnalyticsVars

\* after the loop: sort, build the result (start_date is read before startDate.setDate
\* moves the Date object to the last day), return
GenerateRevenueAnalyticsReturn ==
  /\ analyticsPc = "running"
  /\ analyticsI >= analyticsDays
  /\ bucket = Null
  /\ analytics' = SortByDate(analytics)
  /\ analyticsStart' = <<AddDays(analyticsStart[1], analyticsDays - 1)>>
  /\ analyticsResult' =
       <<[hotel_id |-> analyticsArgs[1].hotelId,
          start_date |-> ToISODate(analyticsStart[1]),
          end_date |-> ToISODate(analyticsStart'[1]),
          group_by |-> analyticsArgs[1].groupBy,
          analytics |-> analytics']>>
  /\ analyticsPc' = "done"
  /\ UNCHANGED <<analyticsArgs, analyticsDays, analyticsI, bucket>>
  /\ UNCHANGED notAnalyticsVars

NextAnalytics ==
  \/ \E hotelId \in HotelIdArgs, startDate \in StartInstants, groupBy \in GroupByArgs :
        \E endDate \in EndDateArgs(startDate) :
          GetRevenueAnalytics(hotelId, startDate, endDate, groupBy)
  \/ GenerateRevenueAnalyticsStep
  \/ GenerateRevenueAnalyticsPush
  \/ GenerateRevenueAnalyticsReturn

(***************************************************************************)
(* The price multiplier as a function of demand over the whole of [0, 1]    *)
(***************************************************************************)
MultiplierInit ==
  /\ demandIn \in 0 .. DemandDen
  /\ multiplierOut = Null

\* the branch of generatePricingData that computes priceMultiplier from demand
ComputeMultiplier ==
  /\ multiplierOut = Null
  /\ multiplierOut' = <<PriceMultiplier(demandIn)>>
  /\ UNCHANGED demandIn
  /\ UNCHANGED notMultiplierVars

\* the next demand probability to price
NextDemand ==
  /\ multiplierOut # Null
  /\ demandIn' \in 0 .. DemandDen
  /\ multiplierOut' = Null
  /\ UNCHANGED notMultiplierVars

NextMultiplier == ComputeMultiplier \/ NextDemand

(***************************************************************************)
(* The loop body of generatePricingData on any room type and any demand     *)
(***************************************************************************)
\* the room types priced: the first shipped one, a room type whose discount price
\* meets its variable cost, one that is free of charge, one free of charge and of
\* cost, one without inventory
RoomTypeInputs ==
  { [id |-> 1, hotel_id |-> 1, base_price |-> 19900, variable_cost |-> 4500, inventory_count |-> 40],
    [id |-> 8, hotel_id |-> 4, base_price |-> 10000, variable_cost |-> 6000, inventory_count |-> 20],
    [id |-> 9, hotel_id |-> 4, base_price |-> 0, variable_cost |-> 4500, inventory_count |-> 40],
    [id |-> 10, hotel_id |-> 4, base_price |-> 0, variable_cost |-> 0, inventory_count |-> 40],
    [id |-> 11, hotel_id |-> 4, base_price |-> 10000, variable_cost |-> 0, inventory_count |-> 0] }

\* the demand probabilities priced: 0, 0.1, .., 1.0, as numerators over DemandDen
DemandInputs == {RandDen * n : n \in 0 .. 10}

\* nothing is being priced by the engine
EngineIdle ==
  /\ engineRoomType = Null
  /\ engineDate = 0
  /\ engineDemand = 0
  /\ enginePricedDay = Null
  /\ enginePricedAgain = Null

\* a room type, a date and a demand are about to be priced
EngineInit ==
  /\ engineRoomType \in {<<rt>> : rt \in RoomTypeInputs}
  /\ engineDate \in StartInstants
  /\ engineDemand \in DemandInputs
  /\ enginePricedDay = Null
  /\ enginePricedAgain = Null

\* the loop body computes the record of the day
PriceDayOnce ==
  /\ enginePricedDay = Null
  /\ \E kOverride \in Random, kEff \in Random :
       \E kAdjust \in (IF IsOverride(kOverride) THEN Random ELSE {0}) :
         enginePricedDay' =
           <<PriceDay(engineRoomType[1], engineDate, engineDemand, kOverride, kAdjust, kEff)>>
  /\ UNCHANGED <<engineRoomType, engineDate, engineDemand, enginePricedAgain>>
  /\ UNCHANGED notEngineVars

\* the loop body computes the record of the same day, room type and demand once more;
\* Math.random() is the only source of its draws
PriceDayAgain ==
  /\ enginePricedDay # Null
  /\ enginePricedAgain = Null
  /\ \E kOverride \in Random, kEff \in Random :
       \E kAdjust \in (IF IsOverride(kOverride) THEN Random ELSE {0}) :
         enginePricedAgain' =
           <<PriceDay(engineRoomType[1], engineDate, engineDemand, kOverride, kAdjust, kEff)>>
  /\ UNCHANGED <<engineRoomType, engineDate, engineDemand, enginePricedDay>>
  /\ UNCHANGED notEngineVars

NextPriceDay == PriceDayOnce \/ PriceDayAgain

(***************************************************************************)
(* getContributionMarginAnalytics: the map over revenueData.analytics.      *)
(***************************************************************************)

\* hotelRoomTypes.find(r => r.id === rt.room_type_id)
FindHotelRoomType(hotelRoomTypeList, id) ==
  LET n == CHOOSE n \in 1..Len(hotelRoomTypeList) : hotelRoomTypeList[n].id = id
  IN  hotelRoomTypeList[n]

\* one entry of roomTypesWithContribution: money in cents, the margin in ten-thousandths
RoomTypeWithContribution(rt, hotelRoomTypeList) ==
  LET roomType == FindHotelRoomType(hotelRoomTypeList, rt.room_type_id)
      variableCost == rt.occupied * roomType.variable_cost
      contribution == rt.revenue - variableCost
  IN  [ room_type_id |-> rt.room_type_id,
        revenue |-> rt.revenue,
        rooms |-> rt.rooms,
        occupied |-> rt.occupied,
        occupancy_rate |-> rt.occupancy_rate,
        variable_cost |-> variableCost,
        contribution |-> contribution,
        contribution_margin |-> DivideRounded(contribution, rt.revenue) ]

\* the entry the map returns for one entry of revenueData.analytics
ContributionItem(item, hotelRoomTypeList) ==
  LET N == Len(item.room_types)
      roomTypesWithContribution ==
        [n \in 1..N |-> RoomTypeWithContribution(item.room_types[n], hotelRoomTypeList)]
      totalVariableCost == SumTo([n \in 1..N |-> roomTypesWithContribution[n].variable_cost], N)
      totalContribution == SumTo([n \in 1..N |-> roomTypesWithContribution[n].contribution], N)
  IN  [ date |-> item.date,
        total_revenue |-> item.total_revenue,
        total_variable_cost |-> totalVariableCost,
        total_contribution |-> totalContribution,
        contribution_margin |-> DivideRounded(totalContribution, item.total_revenue),
        total_rooms |-> item.total_rooms,
        total_occupied |-> item.total_occupied,
        room_types |-> roomTypesWithContribution ]

\* the entry getOccupancyAnalytics returns for one entry of revenueData.analytics
OccupancyItem(item) ==
  [ date |-> item.date,
    total_rooms |-> item.total_rooms,
    total_occupied |-> item.total_occupied,
    occupancy_rate |-> item.occupancy_rate,
    room_types |-> [n \in 1..Len(item.room_types) |->
                      [ room_type_id |-> item.room_types[n].room_type_id,
                        rooms |-> item.room_types[n].rooms,
                        occupied |-> item.room_types[n].occupied,
                        occupancy_rate |-> item.room_types[n].occupancy_rate ]] ]

\* hotels the maps are run on: the three shipped ones, a hotel with a single suite,
\* a hotel with a complimentary room type, a hotel with both next to a priced one,
\* a hotel whose prices end in 50 cents, and a hotel with no room to sell
HotelInputs ==
  { HotelRoomTypes(1), HotelRoomTypes(2), HotelRoomTypes(3),
    << [id |-> 12, hotel_id |-> 5, base_price |-> 49900, variable_cost |-> 9500,
        inventory_count |-> 1] >>,
    << [id |-> 9, hotel_id |-> 4, base_price |-> 0, variable_cost |-> 4500,
        inventory_count |-> 40] >>,
    << [id |-> 8, hotel_id |-> 4, base_price |-> 10000, variable_cost |-> 6000,
        inventory_count |-> 20],
       [id |-> 12, hotel_id |-> 4, base_price |-> 49900, variable_cost |-> 9500,
        inventory_count |-> 1] >>,
    << [id |-> 13, hotel_id |-> 6, base_price |-> 10050, variable_cost |-> 3500,
        inventory_count |-> 20],
       [id |-> 14, hotel_id |-> 6, base_price |-> 12050, variable_cost |-> 4500,
        inventory_count |-> 20] >>,
    << [id |-> 15, hotel_id |-> 7, base_price |-> 10000, variable_cost |-> 3000,
        inventory_count |-> 0] >> }

\* no entry is being mapped
ContributionIdle ==
  /\ contributionRoomTypes = <<>>
  /\ revenueItem = Null
  /\ contributionItem = Null
  /\ occupancyItem = Null

\* the room types of a hotel have been filtered; no entry is generated yet
ContributionInit ==
  /\ contributionRoomTypes \in HotelInputs
  /\ revenueItem = Null
  /\ contributionItem = Null
  /\ occupancyItem = Null

\* generateRevenueAnalytics generates the entry of one group date
GenerateRevenueItem ==
  /\ revenueItem = Null
  /\ \E groupDate \in StartInstants :
       \E draws \in [1..Len(contributionRoomTypes) -> AnalyticsRandom \X AnalyticsRandom] :
         revenueItem' = <<Bucket(contributionRoomTypes, groupDate, 0, draws)>>
  /\ UNCHANGED <<contributionRoomTypes, contributionItem, occupancyItem>>
  /\ UNCHANGED notContributionVars

\* the callback of revenueData.analytics.map on that entry
MapContributionItem ==
  /\ revenueItem # Null
  /\ contributionItem = Null
  /\ contributionItem' = <<ContributionItem(revenueItem[1], contributionRoomTypes)>>
  /\ UNCHANGED <<contributionRoomTypes, revenueItem, occupancyItem>>
  /\ UNCHANGED notContributionVars

\* the callback of revenueData.analytics.map of getOccupancyAnalytics on that entry
MapOccupancyItem ==
  /\ revenueItem # Null
  /\ occupancyItem = Null
  /\ occupancyItem' = <<OccupancyItem(revenueItem[1])>>
  /\ UNCHANGED <<contributionRoomTypes, revenueItem, contributionItem>>
  /\ UNCHANGED notContributionVars

NextContribution == GenerateRevenueItem \/ MapContributionItem \/ MapOccupancyItem

(***************************************************************************)
(* Calls in flight at the same time. Every function of mockApi awaits a     *)
(* timer first; what follows an await runs to its next await, or to its     *)
(* return, without interruption.                                            *)
(***************************************************************************)

\* the slots of the calls in flight
Calls == {1, 2}

\* the functions called
Kinds == {"getPricingRecommendations", "getRevenueAnalytics", "getOccupancyAnalytics",
          "getContributionMarginAnalytics", "getRoomTypes"}

\* the functions that await getRevenueAnalytics
RevenueReusers == {"getOccupancyAnalytics", "getContributionMarginAnalytics"}

\* the draws of one call: Math.random() returns the same value to every draw of a kind,
\* pricing = <<demand, override, adjustment, efficiency>>, analytics = <<occupancy, price>>
CallDraws ==
  { [pricing |-> <<0, 0, RandDen - 1, 0>>, analytics |-> <<0, 0>>],
    [pricing |-> <<RandDen - 1, 4, 0, RandDen - 1>>,
     analytics |-> <<AnalyticsRandSteps - 1, AnalyticsRandSteps - 1>>] }

\* the endDate objects of the caller for a startDate: none, or three days later
CallEndDates(startDate) == {Null, <<AddDays(startDate, 3)>>}

\* store.filter(rt => rt.hotel_id === hotelId)
StoreRoomTypes(store, hotelId) ==
  LET OfHotel(rt) == rt.hotel_id = hotelId
  IN  SelectSeq(store, OfHotel)

\* the body of iteration i of the loop of generateRevenueAnalytics: the analytics array
\* after it
RevenueIteration(rts, currentDate, groupBy, draw, i, analyticsBefore) ==
  LET date == AddDays(currentDate, i)
      groupDate == GroupDate(date, groupBy)
  IN  IF ExistingIndex(analyticsBefore, groupDate) >= 0 THEN analyticsBefore
      ELSE Append(analyticsBefore,
                  Bucket(rts, groupDate, i, [n \in 1..Len(rts) |-> draw]))

\* the loop of generateRevenueAnalytics from iteration i on; the array an iteration
\* leaves is bound as a value before the next one reads it
RECURSIVE RevenueLoop(_, _, _, _, _, _, _)
RevenueLoop(rts, currentDate, days, groupBy, draw, i, analyticsBefore) ==
  IF i >= days THEN analyticsBefore
  ELSE CHOOSE analyticsAtEnd \in
         { RevenueLoop(rts, currentDate, days, groupBy, draw, i + 1, analyticsAfter) :
             analyticsAfter \in
               {RevenueIteration(rts, currentDate, groupBy, draw, i, analyticsBefore)} } : TRUE

\* what generateRevenueAnalytics returns for the instant of the Date object it is handed
GenerateRevenueAnalytics(store, hotelId, startDate, days, groupBy, draw) ==
  LET rts == StoreRoomTypes(store, hotelId)
  IN  IF rts = <<>> THEN [analytics |-> <<>>]
      ELSE [ hotel_id |-> hotelId,
             start_date |-> ToISODate(startDate),
             end_date |-> ToISODate(AddDays(startDate, days - 1)),
             group_by |-> groupBy,
             analytics |-> SortByDate(RevenueLoop(rts, startDate, days, groupBy, draw, 0, <<>>)) ]

\* what getPricingRecommendations returns for the instant of the caller's startDate
PricingRecommendations(store, hotelId, startDate, days, draw) ==
  LET rts == StoreRoomTypes(store, hotelId)
  IN  IF rts = <<>> THEN [error |-> "No room types found for the specified criteria"]
      ELSE [ hotel_id |-> hotelId,
             start_date |-> ToISODate(startDate),
             days |-> days,
             recommendations |->
               [n \in 1..Len(rts) |->
                  [ room_type_id |-> rts[n].id,
                    base_price |-> rts[n].base_price,
                    variable_cost |-> rts[n].variable_cost,
                    inventory_count |-> rts[n].inventory_count,
                    prices |-> [i \in 1..PricingDays |->
                                  PricedDay(rts[n], startDate, i - 1,
                                            draw[1], draw[2], draw[3], draw[4])] ]] ]

\* { ...revenueData, analytics: revenueData.analytics.map(...) } of getOccupancyAnalytics
OccupancyAnalytics(revenueData) ==
  [revenueData EXCEPT
     !.analytics = [n \in 1..Len(revenueData.analytics) |->
                      OccupancyItem(revenueData.analytics[n])]]

\* { ...revenueData, analytics: revenueData.analytics.map(...) } of
\* getContributionMarginAnalytics
ContributionMarginAnalytics(revenueData, store, hotelId) ==
  [revenueData EXCEPT
     !.analytics = [n \in 1..Len(revenueData.analytics) |->
                      ContributionItem(revenueData.analytics[n],
                                       StoreRoomTypes(store, hotelId))]]

\* the caller's object handed on as it is (mutation of NewDate)
NewDateSameObject(object) == object

\* new Date(startDate): the object handed on is a new one, not the caller's
NewDate(object) == "copy"

\* getRevenueAnalytics after its timer: days from the caller's objects, then
\* generateRevenueAnalytics on new Date(startDate), whose last statement moves the
\* object it was handed by days - 1 (startDate.setDate); data is what it returns,
\* objects are the caller's Date objects afterwards
RevenueAnalyticsCall(call) ==
  LET startDate == dateObjects.startDate
      days == DaysOf(startDate, dateObjects.endDate)
      handed == NewDate("startDate")
      moved == /\ StoreRoomTypes(roomTypeStore, call.hotelId) # <<>>
               /\ handed \in DOMAIN dateObjects
  IN  [ data |-> GenerateRevenueAnalytics(roomTypeStore, call.hotelId, startDate, days,
                                          call.groupBy, call.draws.analytics),
        objects |-> IF moved
                      THEN [dateObjects EXCEPT ![handed] = AddDays(startDate, days - 1)]
                      ELSE dateObjects ]

\* a slot without a call
NoCall ==
  [ pc |-> "idle", kind |-> "", hotelId |-> 0, groupBy |-> "", draws |-> Null,
    given |-> Null, revenueData |-> Null, result |-> Null ]

\* no call is in flight
CallsIdle ==
  /\ roomTypeStore = roomTypes
  /\ dateObjects = [startDate |-> 0, endDate |-> Null]
  /\ calls = [c \in Calls |-> NoCall]

\* no call is in flight; the caller holds a startDate and maybe an endDate
CallsInit ==
  /\ roomTypeStore = roomTypes
  /\ \E startDate \in StartInstants :
       \E endDate \in CallEndDates(startDate) :
         dateObjects = [startDate |-> startDate, endDate |-> endDate]
  /\ calls = [c \in Calls |-> NoCall]

\* the caller calls a function with its Date objects; the function awaits its timer.
\* given is not state of the program: it records what the objects held at the call
IssueCall(c) ==
  /\ calls[c].pc = "idle"
  /\ \E kind \in Kinds, hotelId \in {2, 9}, draws \in CallDraws :
       \E groupBy \in (IF kind \in RevenueReusers \cup {"getRevenueAnalytics"}
                         THEN {"day", "week"} ELSE {"day"}) :
         calls' = [calls EXCEPT ![c] =
                     [ pc |-> "timer", kind |-> kind, hotelId |-> hotelId,
                       groupBy |-> groupBy, draws |-> <<draws>>, given |-> <<dateObjects>>,
                       revenueData |-> Null, result |-> Null ]]
  /\ UNCHANGED <<roomTypeStore, dateObjects>>
  /\ UNCHANGED notCallVars

\* getRoomTypes(hotelId) after its timer
RunGetRoomTypes(c) ==
  /\ calls[c].pc = "timer"
  /\ calls[c].kind = "getRoomTypes"
  /\ calls' = [calls EXCEPT ![c].pc = "done",
                            ![c].result = <<StoreRoomTypes(roomTypeStore, calls[c].hotelId)>>]
  /\ UNCHANGED <<roomTypeStore, dateObjects>>
  /\ UNCHANGED notCallVars

\* getPricingRecommendations after its timer: generatePricingData copies startDate for
\* every day, the response reads startDate.toISOString()
RunGetPricingRecommendations(c) ==
  /\ calls[c].pc = "timer"
  /\ calls[c].kind = "getPricingRecommendations"
  /\ calls' = [calls EXCEPT
                 ![c].pc = "done",
                 ![c].result = <<PricingRecommendations(roomTypeStore, calls[c].hotelId,
                                                        dateObjects.startDate, PricingDays,
                                                        calls[c].draws[1].pricing)>>]
  /\ UNCHANGED <<roomTypeStore, dateObjects>>
  /\ UNCHANGED notCallVars

\* getRevenueAnalytics, called by the caller, after its timer
RunGetRevenueAnalytics(c) ==
  /\ calls[c].pc = "timer"
  /\ calls[c].kind = "getRevenueAnalytics"
  /\ LET done == RevenueAnalyticsCall([calls[c] EXCEPT !.draws = calls[c].draws[1]])
     IN  /\ calls' = [calls EXCEPT ![c].pc = "done", ![c].result = <<done.data>>]
         /\ dateObjects' = done.objects
  /\ UNCHANGED roomTypeStore
  /\ UNCHANGED notCallVars

\* getOccupancyAnalytics or getContributionMarginAnalytics after its timer: it calls
\* getRevenueAnalytics with the caller's objects and awaits it
AwaitRevenueAnalytics(c) ==
  /\ calls[c].pc = "timer"
  /\ calls[c].kind \in RevenueReusers
  /\ calls' = [calls EXCEPT ![c].pc = "inner"]
  /\ UNCHANGED <<roomTypeStore, dateObjects>>
  /\ UNCHANGED notCallVars

\* the getRevenueAnalytics awaited by such a call, after its timer
RunInnerRevenueAnalytics(c) ==
  /\ calls[c].pc = "inner"
  /\ LET done == RevenueAnalyticsCall([calls[c] EXCEPT !.draws = calls[c].draws[1]])
     IN  /\ calls' = [calls EXCEPT ![c].pc = "map", ![c].revenueData = <<done.data>>]
         /\ dateObjects' = done.objects
  /\ UNCHANGED roomTypeStore
  /\ UNCHANGED notCallVars

\* getOccupancyAnalytics once revenueData is there
MapOccupancyAnalytics(c) ==
  /\ calls[c].pc = "map"
  /\ calls[c].kind = "getOccupancyAnalytics"
  /\ calls' = [calls EXCEPT ![c].pc = "done",
                            ![c].result = <<OccupancyAnalytics(calls[c].revenueData[1])>>]
  /\ UNCHANGED <<roomTypeStore, dateObjects>>
  /\ UNCHANGED notCallVars

\* getContributionMarginAnalytics once revenueData is there
MapContributionMarginAnalytics(c) ==
  /\ calls[c].pc = "map"
  /\ calls[c].kind = "getContributionMarginAnalytics"
  /\ calls' = [calls EXCEPT
                 ![c].pc = "done",
                 ![c].result = <<ContributionMarginAnalytics(calls[c].revenueData[1],
                                                             roomTypeStore,
                                                             calls[c].hotelId)>>]
  /\ UNCHANGED <<roomTypeStore, dateObjects>>
  /\ UNCHANGED notCallVars

NextCalls ==
  \E c \in Calls :
    \/ IssueCall(c)
    \/ RunGetRoomTypes(c)
    \/ RunGetPricingRecommendations(c)
    \/ RunGetRevenueAnalytics(c)
    \/ AwaitRevenueAnalytics(c)
    \/ RunInnerRevenueAnalytics(c)
    \/ MapOccupancyAnalytics(c)
    \/ MapContributionMarginAnalytics(c)

(***************************************************************************)
(* The progress of the operations of mockApi: the timer each one awaits     *)
(* first, the promise getOccupancyAnalytics and                             *)
(* getContributionMarginAnalytics await next, and the loops of              *)
(* generatePricingData and generateRevenueAnalytics, which run without      *)
(* another operation's code in between.                                     *)
(***************************************************************************)

\* the functions of mockApi
Operations ==
  {"login", "getHotels", "getHotelById", "getRoomTypes", "getRoomTypeById",
   "getPricingRecommendations", "getRevenueAnalytics", "getOccupancyAnalytics",
   "getContributionMarginAnalytics", "getDashboardData"}

\* the functions that return once their timer has expired, whatever their arguments
ReturnAfterTimer == {"login", "getHotels", "getRoomTypes", "getDashboardData"}

\* the ids of the hotels shipped
HotelIds == {1, 2, 3}

\* the id arguments (a hotel id, or a room type id for getRoomTypeById): one that
\* exists and one that does not
IdArgs == {2, 9}

\* the endDate arguments for a startDate: none, the day before, three days later
OperationEndDates(startDate) ==
  {Null, <<AddDays(startDate, -1)>>, <<AddDays(startDate, 3)>>}

\* i++ left out of the loop (mutation of NextIndex)
NextIndexSame(i) == i

\* i++
NextIndex(i) == i + 1

\* a slot without an operation
NoOperation ==
  [ kind |-> "", pc |-> "idle", id |-> 0, days |-> 0, roomTypesLeft |-> 0, i |-> 0,
    outcome |-> "" ]

\* no operation is in progress
OperationsIdle ==
  /\ operations = [c \in Calls |-> NoOperation]
  /\ running = 0

\* the operation of the slot has returned or thrown
Settled(op, outcome) == [op EXCEPT !.pc = "done", !.outcome = outcome]

\* generateRevenueAnalytics is entered by the operation: it returns at once for a hotel
\* without room types, and starts its loop otherwise
EnterRevenueAnalytics(c) ==
  IF StoreRoomTypes(roomTypes, operations[c].id) = <<>>
    THEN /\ operations' =
              [operations EXCEPT
                 ![c] = IF operations[c].kind = "getRevenueAnalytics"
                          THEN Settled(operations[c], "returned")
                          ELSE [operations[c] EXCEPT !.pc = "map"]]
         /\ UNCHANGED running
    ELSE /\ operations' = [operations EXCEPT ![c].pc = "loop", ![c].i = 0]
         /\ running' = c

\* a function is called, by code that runs when no operation's code does: it sets its
\* timer and awaits it
CallOperation(c) ==
  /\ running = 0
  /\ operations[c].pc = "idle"
  /\ \E kind \in Operations, id \in IdArgs, startDate \in StartInstants :
       \E endDate \in OperationEndDates(startDate) :
         operations' = [operations EXCEPT ![c] =
                          [ kind |-> kind, pc |-> "timer", id |-> id,
                            days |-> DaysOf(startDate, endDate),
                            roomTypesLeft |-> 0, i |-> 0, outcome |-> "" ]]
  /\ UNCHANGED running
  /\ UNCHANGED notOperationVars

\* the timer of login, getHotels, getRoomTypes or getDashboardData expires: it returns
TimerOfReturn(c) ==
  /\ running = 0
  /\ operations[c].pc = "timer"
  /\ operations[c].kind \in ReturnAfterTimer
  /\ operations' = [operations EXCEPT ![c] = Settled(operations[c], "returned")]
  /\ UNCHANGED running
  /\ UNCHANGED notOperationVars

\* the timer of getHotelById or getRoomTypeById expires: it returns what it finds, or
\* throws "Hotel not found" / "Room type not found"
TimerOfFind(c) ==
  /\ running = 0
  /\ operations[c].pc = "timer"
  /\ operations[c].kind \in {"getHotelById", "getRoomTypeById"}
  /\ LET found == IF operations[c].kind = "getHotelById"
                    THEN operations[c].id \in HotelIds
                    ELSE FindRoomType(operations[c].id) # Null
     IN  operations' = [operations EXCEPT
                          ![c] = Settled(operations[c],
                                         IF found THEN "returned" ELSE "thrown")]
  /\ UNCHANGED running
  /\ UNCHANGED notOperationVars

\* the timer of getPricingRecommendations expires: it throws for a hotel without room
\* types, and starts the forEach over the room types otherwise
TimerOfPricing(c) ==
  /\ running = 0
  /\ operations[c].pc = "timer"
  /\ operations[c].kind = "getPricingRecommendations"
  /\ LET hotelRoomTypeList == SelectRoomTypes(operations[c].id, Null)
     IN  IF hotelRoomTypeList = <<>>
           THEN /\ operations' = [operations EXCEPT ![c] = Settled(operations[c], "thrown")]
                /\ UNCHANGED running
           ELSE /\ operations' = [operations EXCEPT
                                    ![c].pc = "forEach",
                                    ![c].roomTypesLeft = Len(hotelRoomTypeList),
                                    ![c].i = 0]
                /\ running' = c
  /\ UNCHANGED notOperationVars

\* one iteration of the loop of generatePricingData
PricingLoopIteration(c) ==
  /\ running = c
  /\ operations[c].pc = "forEach"
  /\ operations[c].i < PricingDays
  /\ operations' = [operations EXCEPT ![c].i = NextIndex(operations[c].i)]
  /\ UNCHANGED running
  /\ UNCHANGED notOperationVars

\* generatePricingData returns: the forEach goes on to the next room type, or
\* getPricingRecommendations returns its response after the last one
PricingLoopExit(c) ==
  /\ running = c
  /\ operations[c].pc = "forEach"
  /\ operations[c].i >= PricingDays
  /\ IF operations[c].roomTypesLeft > 1
       THEN /\ operations' = [operations EXCEPT
                                ![c].roomTypesLeft = operations[c].roomTypesLeft - 1,
                                ![c].i = 0]
            /\ UNCHANGED running
       ELSE /\ operations' = [operations EXCEPT
                                ![c] = Settled([operations[c] EXCEPT !.roomTypesLeft = 0],
                                               "returned")]
            /\ running' = 0
  /\ UNCHANGED notOperationVars

\* the timer of getRevenueAnalytics, called by the caller, expires
TimerOfRevenueAnalytics(c) ==
  /\ running = 0
  /\ operations[c].pc = "timer"
  /\ operations[c].kind = "getRevenueAnalytics"
  /\ EnterRevenueAnalytics(c)
  /\ UNCHANGED notOperationVars

\* the timer of getOccupancyAnalytics or getContributionMarginAnalytics expires: it calls
\* getRevenueAnalytics, which sets its own timer, and awaits it
TimerOfReuser(c) ==
  /\ running = 0
  /\ operations[c].pc = "timer"
  /\ operations[c].kind \in RevenueReusers
  /\ operations' = [operations EXCEPT ![c].pc = "inner"]
  /\ UNCHANGED running
  /\ UNCHANGED notOperationVars

\* the timer of the getRevenueAnalytics such a function awaits expires
TimerOfInnerRevenueAnalytics(c) ==
  /\ running = 0
  /\ operations[c].pc = "inner"
  /\ EnterRevenueAnalytics(c)
  /\ UNCHANGED notOperationVars

\* one iteration of the loop of generateRevenueAnalytics
RevenueLoopIteration(c) ==
  /\ running = c
  /\ operations[c].pc = "loop"
  /\ operations[c].i < operations[c].days
  /\ operations' = [operations EXCEPT ![c].i = NextIndex(operations[c].i)]
  /\ UNCHANGED running
  /\ UNCHANGED notOperationVars

\* the loop of generateRevenueAnalytics is over: it sorts and returns, to the caller or
\* to the function that awaits it
RevenueLoopExit(c) ==
  /\ running = c
  /\ operations[c].pc = "loop"
  /\ operations[c].i >= operations[c].days
  /\ operations' =
       [operations EXCEPT
          ![c] = IF operations[c].kind = "getRevenueAnalytics"
                   THEN Settled(operations[c], "returned")
                   ELSE [operations[c] EXCEPT !.pc = "map"]]
  /\ running' = 0
  /\ UNCHANGED notOperationVars

\* getOccupancyAnalytics or getContributionMarginAnalytics resumes with revenueData, maps
\* its entries and returns
MapAndReturn(c) ==
  /\ running = 0
  /\ operations[c].pc = "map"
  /\ operations' = [operations EXCEPT ![c] = Settled(operations[c], "returned")]
  /\ UNCHANGED running
  /\ UNCHANGED notOperationVars

\* the event loop runs the operation on: a timer of it expires, the promise it awaits
\* resolves, or its synchronous code takes its next step
Progress(c) ==
  \/ TimerOfReturn(c)
  \/ TimerOfFind(c)
  \/ TimerOfPricing(c)
  \/ PricingLoopIteration(c)
  \/ PricingLoopExit(c)
  \/ TimerOfRevenueAnalytics(c)
  \/ TimerOfReuser(c)
  \/ TimerOfInnerRevenueAnalytics(c)
  \/ RevenueLoopIteration(c)
  \/ RevenueLoopExit(c)
  \/ MapAndReturn(c)

NextOperations ==
  \E c \in Calls :
    \/ CallOperation(c)
    \/ TimerOfReturn(c)
    \/ TimerOfFind(c)
    \/ TimerOfPricing(c)
    \/ PricingLoopIteration(c)
    \/ PricingLoopExit(c)
    \/ TimerOfRevenueAnalytics(c)
    \/ TimerOfReuser(c)
    \/ TimerOfInnerRevenueAnalytics(c)
    \/ RevenueLoopIteration(c)
    \/ RevenueLoopExit(c)
    \/ MapAndReturn(c)

(***************************************************************************)
(* The App component: the authentication flag, the token and the routes.    *)
(***************************************************************************)

\* the handleSubmit calls of Login that may await their timer at the same time
MaxSubmits == 2

\* the paths of the routes under AuthLayout
AuthPaths == {"/login", "/register", "/forgot-password"}

\* the paths of the routes under the protected element
ProtectedPaths ==
  {"/", "/dashboard", "/hotels", "/room-types", "/pricing", "/pricing/rules", "/forecasting",
   "/analytics/revenue", "/analytics/occupancy", "/analytics/contribution-margin",
   "/analytics/pricing-performance", "/settings", "/profile"}

\* the paths the browser is sent to: those of the routes and one that matches none
Paths == AuthPaths \cup ProtectedPaths \cup {"/missing"}

\* the path the router settles at: the protected element is <Navigate to="/login" replace />
\* without authentication, and "/" is <Navigate to="/dashboard" replace />
Settle(path, authenticated) ==
  IF path \in ProtectedPaths /\ ~authenticated THEN "/login"
  ELSE IF path = "/" THEN "/dashboard"
  ELSE path

\* what App returns: the spinner while isLoading, else the element of the route matched
Render(loading, authenticated, path) ==
  IF loading THEN "spinner"
  ELSE IF path = "/login" THEN "Login"
  ELSE IF path = "/register" THEN "Register"
  ELSE IF path = "/forgot-password" THEN "ForgotPassword"
  ELSE IF path \in ProtectedPaths
    THEN (IF authenticated THEN "Dashboard" ELSE "Navigate")
  ELSE "NotFound"

\* handleLogout leaving the item 'token' where it is (mutation of RemoveItem)
RemoveItemKept(stored) == stored

\* localStorage.removeItem('token'): whether the item is there afterwards
RemoveItem(stored) == FALSE

\* the page is not open
AuthIdle ==
  /\ token = FALSE
  /\ isAuthenticated = FALSE
  /\ isLoading = TRUE
  /\ location = "/"
  /\ element = "spinner"
  /\ submits = 0
  /\ loggedOut = FALSE

\* the page has been opened at some path, with or without a token stored by an earlier
\* visit: useState(false), useState(true), and the first render
AuthInit ==
  /\ token \in BOOLEAN
  /\ isAuthenticated = FALSE
  /\ isLoading = TRUE
  /\ location \in Paths
  /\ element = "spinner"
  /\ submits = 0
  /\ loggedOut = FALSE

\* the page is loaded again at a path: the components and the timers of the page that
\* was open are gone, localStorage stays
LoadPage(path) ==
  /\ isAuthenticated' = FALSE
  /\ isLoading' = TRUE
  /\ location' = path
  /\ element' = Render(TRUE, FALSE, path)
  /\ submits' = 0
  /\ UNCHANGED <<token, loggedOut>>
  /\ UNCHANGED notAuthVars

\* the effect of App after its first render: checkAuth, and the render that follows
CheckAuth ==
  /\ isLoading
  /\ isAuthenticated' = token
  /\ isLoading' = FALSE
  /\ location' = Settle(location, token)
  /\ element' = Render(FALSE, token, location')
  /\ UNCHANGED <<token, submits, loggedOut>>
  /\ UNCHANGED notAuthVars

\* a link, or the browser's back and forward buttons, takes the router to a path
NavigateTo(path) ==
  /\ ~isLoading
  /\ location' = Settle(path, isAuthenticated)
  /\ element' = Render(FALSE, isAuthenticated, location')
  /\ UNCHANGED <<token, isAuthenticated, isLoading, submits, loggedOut>>
  /\ UNCHANGED notAuthVars

\* handleSubmit of Login up to its await: the timer of 1000 ms is started
HandleSubmit ==
  /\ element = "Login"
  /\ submits < MaxSubmits
  /\ submits' = submits + 1
  /\ UNCHANGED <<token, isAuthenticated, isLoading, location, element, loggedOut>>
  /\ UNCHANGED notAuthVars

\* handleSubmit of Login after its await, whether Login is still rendered or not: the
\* token is stored, the flag is set, the router goes to /dashboard
HandleSubmitResume ==
  /\ submits > 0
  /\ submits' = submits - 1
  /\ token' = TRUE
  /\ isAuthenticated' = TRUE
  /\ location' = Settle("/dashboard", TRUE)
  /\ element' = Render(isLoading, TRUE, location')
  /\ loggedOut' = FALSE
  /\ UNCHANGED isLoading
  /\ UNCHANGED notAuthVars

\* handleLogout of Dashboard
HandleLogout ==
  /\ element = "Dashboard"
  /\ token' = RemoveItem(token)
  /\ isAuthenticated' = FALSE
  /\ location' = Settle("/login", FALSE)
  /\ element' = Render(isLoading, FALSE, location')
  /\ loggedOut' = TRUE
  /\ UNCHANGED <<isLoading, submits>>
  /\ UNCHANGED notAuthVars

NextAuth ==
  \/ \E path \in Paths : LoadPage(path)
  \/ CheckAuth
  \/ \E path \in Paths : NavigateTo(path)
  \/ HandleSubmit
  \/ HandleSubmitResume
  \/ HandleLogout

(***************************************************************************)
(* The ThemeProvider component: the theme, the class of the document root   *)
(* and the stored preference.                                               *)
(***************************************************************************)

\* what localStorage may hold under 'color-theme' when the page is loaded: nothing, a
\* theme, or a string that another version or another page of the origin has stored
StoredPreferences == {Null, <<"light">>, <<"dark">>, <<"system">>}

\* the classes 'light' and 'dark' the document root may have when the page is loaded
HtmlClassInputs == {{}, {"light"}, {"dark"}}

\* getInitialTheme
GetInitialTheme(storedPreference, userMediaMatches) ==
  IF storedPreference # Null THEN storedPreference[1]
  ELSE IF userMediaMatches THEN "dark"
  ELSE "light"

\* theme === 'dark' ? 'light' : 'dark', of toggleTheme and of the effect
OtherTheme(t) == IF t = "dark" THEN "light" ELSE "dark"

\* the classes of the root after the effect: the other theme's removed, the theme's added
EffectClasses(classes, t) == (classes \ {OtherTheme(t)}) \cup {t}

\* the page is not open
ThemeIdle ==
  /\ colorTheme = Null
  /\ prefersDark = FALSE
  /\ htmlClasses = {}
  /\ rootClasses = {}
  /\ theme = Null
  /\ effectPending = FALSE
  /\ themesBefore = <<>>

\* the page is loaded; ThemeProvider is not mounted yet
ThemeInit ==
  /\ colorTheme \in StoredPreferences
  /\ prefersDark \in BOOLEAN
  /\ htmlClasses \in HtmlClassInputs
  /\ rootClasses = htmlClasses
  /\ theme = Null
  /\ effectPending = FALSE
  /\ themesBefore = <<>>

\* the first render of ThemeProvider: useState(getInitialTheme)
MountThemeProvider ==
  /\ theme = Null
  /\ theme' = <<GetInitialTheme(colorTheme, prefersDark)>>
  /\ effectPending' = TRUE
  /\ UNCHANGED <<colorTheme, prefersDark, htmlClasses, rootClasses, themesBefore>>
  /\ UNCHANGED notThemeVars

\* the effect of the last render
ThemeEffect ==
  /\ effectPending
  /\ rootClasses' = EffectClasses(rootClasses, theme[1])
  /\ colorTheme' = theme
  /\ effectPending' = FALSE
  /\ UNCHANGED <<prefersDark, htmlClasses, theme, themesBefore>>
  /\ UNCHANGED notThemeVars

\* a click on a theme button: toggleTheme and the render that follows; an effect of the
\* render before is run first
ToggleTheme ==
  /\ theme # Null
  /\ theme' = <<OtherTheme(theme[1])>>
  /\ IF effectPending
       THEN /\ rootClasses' = EffectClasses(rootClasses, theme[1])
            /\ colorTheme' = theme
       ELSE UNCHANGED <<rootClasses, colorTheme>>
  /\ effectPending' = TRUE
  /\ themesBefore' = IF Len(themesBefore) < 2 THEN Append(themesBefore, theme[1])
                     ELSE <<themesBefore[2], theme[1]>>
  /\ UNCHANGED <<prefersDark, htmlClasses>>
  /\ UNCHANGED notThemeVars

\* the page is loaded again: the document is new, localStorage stays
ReloadPage ==
  /\ theme # Null
  /\ theme' = Null
  /\ rootClasses' = htmlClasses
  /\ effectPending' = FALSE
  /\ themesBefore' = <<>>
  /\ UNCHANGED <<colorTheme, prefersDark, htmlClasses>>
  /\ UNCHANGED notThemeVars

NextTheme == MountThemeProvider \/ ThemeEffect \/ ToggleTheme \/ ReloadPage

(***************************************************************************)
(* Specifications                                                           *)
(***************************************************************************)
Init ==
  /\ tz \in TimeZones
  /\ PricingInit
  /\ AnalyticsInit
  /\ demandIn = 0
  /\ multiplierOut = Null
  /\ EngineIdle
  /\ ContributionIdle
  /\ CallsIdle
  /\ OperationsIdle
  /\ AuthIdle
  /\ ThemeIdle

\* no call is under way; any demand probability of [0, 1] is about to be priced
InitMultiplier ==
  /\ tz = 0
  /\ PricingInit
  /\ AnalyticsInit
  /\ MultiplierInit
  /\ EngineIdle
  /\ ContributionIdle
  /\ CallsIdle
  /\ OperationsIdle
  /\ AuthIdle
  /\ ThemeIdle

\* no call is under way; a room type, a date and a demand are about to be priced
InitPriceDay ==
  /\ tz = 0
  /\ PricingInit
  /\ AnalyticsInit
  /\ demandIn = 0
  /\ multiplierOut = Null
  /\ EngineInit
  /\ ContributionIdle
  /\ CallsIdle
  /\ OperationsIdle
  /\ AuthIdle
  /\ ThemeIdle

\* no call is under way; an entry of a hotel's revenue analytics is about to be mapped
InitContribution ==
  /\ tz = 0
  /\ PricingInit
  /\ AnalyticsInit
  /\ demandIn = 0
  /\ multiplierOut = Null
  /\ EngineIdle
  /\ ContributionInit
  /\ CallsIdle
  /\ OperationsIdle
  /\ AuthIdle
  /\ ThemeIdle

\* the caller holds its Date objects and is about to make two calls
InitCalls ==
  /\ tz = 0
  /\ PricingInit
  /\ AnalyticsInit
  /\ demandIn = 0
  /\ multiplierOut = Null
  /\ EngineIdle
  /\ ContributionIdle
  /\ CallsInit
  /\ OperationsIdle
  /\ AuthIdle
  /\ ThemeIdle

\* no function of the service has been called yet
InitOperations ==
  /\ tz = 0
  /\ PricingInit
  /\ AnalyticsInit
  /\ demandIn = 0
  /\ multiplierOut = Null
  /\ EngineIdle
  /\ ContributionIdle
  /\ CallsIdle
  /\ OperationsIdle
  /\ AuthIdle
  /\ ThemeIdle

InitAuth ==
  /\ tz = 0
  /\ PricingInit
  /\ AnalyticsInit
  /\ demandIn = 0
  /\ multiplierOut = Null
  /\ EngineIdle
  /\ ContributionIdle
  /\ CallsIdle
  /\ OperationsIdle
  /\ AuthInit
  /\ ThemeIdle

InitTheme ==
  /\ tz = 0
  /\ PricingInit
  /\ AnalyticsInit
  /\ demandIn = 0
  /\ multiplierOut = Null
  /\ EngineIdle
  /\ ContributionIdle
  /\ CallsIdle
  /\ OperationsIdle
  /\ AuthIdle
  /\ ThemeInit

\* calls of getPricingRecommendations
SpecPricing ==
  Init /\ [][NextPricing]_vars

\* calls of getRevenueAnalytics
SpecAnalytics ==
  Init /\ [][NextAnalytics]_vars

\* the price multiplier on every demand probability k / DemandDen of [0, 1]
SpecMultiplier == InitMultiplier /\ [][NextMultiplier]_vars

\* the loop body of generatePricingData on any room type and any demand of [0, 1]
SpecPriceDay == InitPriceDay /\ [][NextPriceDay]_vars

\* the contribution map on one generated entry of the revenue analytics
SpecContribution == InitContribution /\ [][NextContribution]_vars

\* two calls of the service in flight at the same time, in every interleaving
SpecCalls == InitCalls /\ [][NextCalls]_vars

\* the progress of two operations in flight; the event loop runs every timer that has
\* expired, every continuation whose promise has resolved, and synchronous code to its end
SpecOperations ==
  InitOperations /\ [][NextOperations]_vars /\ \A c \in Calls : WF_vars(Progress(c))

\* the App component through page loads, logins, logouts and navigation
SpecAuth == InitAuth /\ [][NextAuth]_vars

\* the ThemeProvider component through page loads and clicks on the theme button
SpecTheme == InitTheme /\ [][NextTheme]_vars

(***************************************************************************)
(* Properties                                                               *)
(***************************************************************************)
Abs(x) == IF x < 0 THEN -x ELSE x

\* C1: for every demand probability d of [0, 1] the price multiplier computed is
\* 0.6 + (d / 0.30) * 0.4 when d <= 0.30, 1.0 + ((d - 0.70) / 0.30) * 1.0 when d >= 0.70,
\* and exactly 1.0 in between.  (With m = mn / MultDen and d = dn / DemandDen, the
\* equations are cleared of their denominators: 30 * DemandDen times the first,
\* 3 * DemandDen times the second.)
C1_MultiplierIsThreePiece ==
  multiplierOut # Null =>
    LET mn == multiplierOut[1]
        dn == demandIn
    IN  /\ 10 * dn <= 3 * DemandDen =>
             30 * DemandDen * mn = MultDen * (18 * DemandDen + 40 * dn)
        /\ 10 * dn >= 7 * DemandDen =>
             3 * DemandDen * mn = MultDen * (3 * DemandDen + 10 * dn - 7 * DemandDen)
        /\ (10 * dn > 3 * DemandDen /\ 10 * dn < 7 * DemandDen) => mn = MultDen

\* C1 witness: the multiplier has been computed for a demand strictly inside the premium zone
C1_Witness ==
  /\ multiplierOut # Null
  /\ 10 * demandIn > 7 * DemandDen
  /\ demandIn < DemandDen

\* C2: the price multiplier is 0.6 at demand 0, 1.0 at demand 0.30, 1.0 at demand 0.70
\* and 2.0 at demand 1.0, and it makes no jump: between two neighbouring demand
\* probabilities dn / DemandDen and (dn + 1) / DemandDen it changes by no more than the
\* steepest slope (that of the premium zone, 1 / 0.30) allows, at the two tier
\* boundaries as everywhere else.
C2_BoundaryValuesAndContinuity ==
  multiplierOut # Null =>
    LET mn == multiplierOut[1]
        dn == demandIn
    IN  /\ dn = 0 => 10 * mn = 6 * MultDen
        /\ 10 * dn = 3 * DemandDen => mn = MultDen
        /\ 10 * dn = 7 * DemandDen => mn = MultDen
        /\ dn = DemandDen => mn = 2 * MultDen
        /\ dn < DemandDen =>
             3 * DemandDen * Abs(PriceMultiplier(dn + 1) - mn) <= 10 * MultDen

\* C2 witness: the multiplier has been computed at the boundary of the discount zone, 0.30
C2_Witness ==
  /\ multiplierOut # Null
  /\ 10 * demandIn = 3 * DemandDen
  /\ multiplierOut[1] = MultDen

\* C3: in every priced day, whatever the demand and the draw of the efficiency factor,
\* expected_occupancy (in hundredths) lies in [0.10, 0.95]; it is never 0 or 1.
C3_OccupancyClamped ==
  pricedDay # Null =>
    /\ pricedDay[1].expected_occupancy >= 10
    /\ pricedDay[1].expected_occupancy <= 95

\* C3 witness: a priced day whose occupancy was cut down to 0.95 by the clamp
C3_Witness ==
  /\ pricedDay # Null
  /\ pricedDay[1].expected_occupancy = 95
  /\ \E k \in Random : pricedDay[1].demand * (8 * RandDen + 4 * k) * 100 > 95 * OccDen

\* C4: in every priced day, overridden or not, contribution_margin is final_price
\* minus the room type's variable_cost, exactly.
C4_MarginIsPriceMinusCost ==
  pricedDay # Null =>
    pricedDay[1].contribution_margin =
      pricedDay[1].final_price - FindRoomType(pricedDay[1].room_type_id)[1].variable_cost

\* C4 witness: an overridden priced day whose final price was raised above the suggested price
C4_Witness ==
  /\ pricedDay # Null
  /\ pricedDay[1].is_override
  /\ pricedDay[1].final_price > pricedDay[1].suggested_price

\* C5 (the claim as stated): a schedule requested for N days of an existing room type
\* holds exactly N records, their dates consecutive and increasing, the first being
\* the start date.
C5_ScheduleHasRequestedDays ==
  pricingResponse # Null =>
    \A n \in 1..Len(pricingResponse[1].recommendations) :
      LET prices == pricingResponse[1].recommendations[n].prices
      IN  /\ Len(prices) = pricingResponse[1].days
          /\ prices[1] = pricingResponse[1].start_date
          /\ \A j \in 1..(Len(prices) - 1) : prices[j + 1] = prices[j] + 1

\* the loop indices of the requested range whose day falls into the bucket dated d
DaysInBucket(d) ==
  {i \in 0 .. (analyticsDays - 1) :
     ToISODate(GroupDate(AddDays(analyticsArgs[1].startDate, i), analyticsArgs[1].groupBy)) = d}

\* C6 (the claim as stated): with week or month grouping, the totals of each bucket
\* are made of the figures of every day of the requested range that falls into the
\* bucket, not of the figures of a single day.
C6_BucketSumsAllItsDays ==
  (analyticsPc = "done" /\ analyticsArgs[1].groupBy \in {"week", "month"}) =>
    \A n \in 1..Len(analytics) : analytics[n].days = DaysInBucket(analytics[n].date)

\* the bucket a day falls into, on the local calendar: the day itself, the Monday of
\* its week (days since Monday = (day of week + 6) mod 7), the first day of its month
CalendarBucket(t, groupBy) ==
  IF groupBy = "week" THEN LocalDay(t) - ((LocalDay(t) + 3 + 6) % 7)
  ELSE IF groupBy = "month" THEN FirstOfMonth(LocalDay(t))
  ELSE LocalDay(t)

C8_BucketDateIsMondayOrFirst ==
  bucket # Null =>
    LET d == bucket[1].date
        day == ToISODate(AddDays(analyticsArgs[1].startDate, analyticsI))
    IN  /\ analyticsArgs[1].groupBy = "week" =>
             ((d + 3) % 7 = 1 /\ d <= day /\ day - d <= 6)
        /\ analyticsArgs[1].groupBy = "month" =>
             (d \in MonthStarts /\ d = FirstOfMonth(day))

\* C9: when no override is applied to a priced day, final_price equals
\* suggested_price, is_override is false and override_notes is absent; is_override
\* is true exactly when override_notes carries the fixed note.
C9_NoOverrideKeepsSuggestedPrice ==
  pricedDay # Null =>
    LET rec == pricedDay[1]
    IN  /\ rec.adjustment = Null =>
             (rec.final_price = rec.suggested_price /\ ~rec.is_override
                /\ rec.override_notes = Null)
        /\ rec.is_override <=> rec.override_notes = <<OverrideNote>>
        /\ rec.is_override <=> rec.adjustment # Null

\* C9 witness: a priced day without override
C9_Witness ==
  /\ pricedDay # Null
  /\ ~pricedDay[1].is_override
  /\ pricedDay[1].adjustment = Null

\* C10: when an override is applied to a priced day, the adjustment lies in
\* [-0.10, +0.15], final_price lies between 0.90 and 1.15 times suggested_price (each
\* rounded to the cent), and suggested_price is what it is without the override: the
\* base price times the multiplier of the day's demand, rounded to the cent.
C10_OverrideWithinBand ==
  (pricedDay # Null /\ pricedDay[1].is_override) =>
    LET rec == pricedDay[1]
        an == rec.adjustment[1]
    IN  /\ 10 * an >= -AdjDen
        /\ 100 * an <= 15 * AdjDen
        /\ rec.final_price >= RoundDiv(rec.suggested_price * 90, 100)
        /\ rec.final_price <= RoundDiv(rec.suggested_price * 115, 100)
        /\ rec.suggested_price =
             RoundDiv(rec.base_price * PriceMultiplier(rec.demand), MultDen)

\* C10 witness: an overridden priced day with the largest discount, 10 %
C10_Witness ==
  /\ pricedDay # Null
  /\ pricedDay[1].is_override
  /\ 10 * pricedDay[1].adjustment[1] = -AdjDen
  /\ pricedDay[1].final_price < pricedDay[1].suggested_price

\* C11 (the claim as stated): for a room type with base_price >= 0, variable_cost >= 0
\* and inventory_count >= 0 and a demand of [0, 1], no numeric field of the priced day
\* is NaN or infinite; contribution_margin_percentage (the one field that comes out of
\* a division) is finite also when base_price, and with it final_price, is 0.
C11_EveryFieldFinite ==
  enginePricedDay # Null => IsFinite(enginePricedDay[1].contribution_margin_percentage)

\* C13 (the claim as stated): a request for a hotel id that has no room types fails
\* with an error; it does not return a result.
C13_NoRoomTypesIsAnError ==
  (analyticsArgs # Null /\ HotelRoomTypes(analyticsArgs[1].hotelId) = <<>>) =>
    analyticsResult = Null

\* C14 (the claim as stated): a request (for a hotel that has room types) whose day
\* count is not positive (an end date not after the start date) is rejected: no
\* result is returned for it.
C14_NonPositiveDaysRejected ==
  ( /\ analyticsArgs # Null
    /\ HotelRoomTypes(analyticsArgs[1].hotelId) # <<>>
    /\ analyticsDays <= 0 ) => analyticsResult = Null

\* C15 (the claim as stated): two computations of the same room type, date and
\* demand yield identical records.
C15_SameInputsSameRecord ==
  (enginePricedDay # Null /\ enginePricedAgain # Null) =>
    enginePricedDay = enginePricedAgain

\* C17: for base_price 199.00, variable_cost 45.00, demand 0.30 and no override,
\* suggested_price = final_price = 199.00, contribution_margin = 154.00 and
\* contribution_margin_percentage = 77.39.
C17_StickerPriceExample ==
  ( /\ enginePricedDay # Null
    /\ engineRoomType[1].base_price = 19900
    /\ engineRoomType[1].variable_cost = 4500
    /\ 10 * engineDemand = 3 * DemandDen
    /\ ~enginePricedDay[1].is_override ) =>
    /\ enginePricedDay[1].suggested_price = 19900
    /\ enginePricedDay[1].final_price = 19900
    /\ enginePricedDay[1].contribution_margin = 15400
    /\ enginePricedDay[1].contribution_margin_percentage = Finite(7739)

\* C17 witness: the room type of 199.00 and 45.00 priced at demand 0.30 without override
C17_Witness ==
  /\ enginePricedDay # Null
  /\ engineRoomType[1].base_price = 19900
  /\ engineRoomType[1].variable_cost = 4500
  /\ 10 * engineDemand = 3 * DemandDen
  /\ ~enginePricedDay[1].is_override

C19_PriceAboveVariableCost ==
  enginePricedDay # Null =>
    enginePricedDay[1].final_price - engineRoomType[1].variable_cost > 0

\* C20 (the claim as stated): the reported suggested_price is the reported base_price
\* times the reported price_multiplier (hundredths), rounded to 2 decimals.
C20_SuggestedFromReportedMultiplier ==
  pricedDay # Null =>
    pricedDay[1].suggested_price =
      RoundDiv(pricedDay[1].base_price * pricedDay[1].price_multiplier, 100)

\* C20 (amended): suggested_price is base_price times the multiplier computed from the
\* demand, NOT rounded, the product rounded to the cent; the reported price_multiplier
\* is that multiplier rounded to 2 decimals, so base_price times the reported
\* multiplier is within 0.005 * base_price (and half a cent) of suggested_price.
C20_SuggestedFromExactMultiplier ==
  pricedDay # Null =>
    LET rec == pricedDay[1]
        mn == PriceMultiplier(rec.demand)
        sp == rec.suggested_price
        pm == rec.price_multiplier
    IN  /\ 2 * MultDen * sp <= 2 * rec.base_price * mn + MultDen
        /\ 2 * rec.base_price * mn + MultDen < 2 * MultDen * (sp + 1)
        /\ 2 * MultDen * pm <= 200 * mn + MultDen
        /\ 200 * mn + MultDen < 2 * MultDen * (pm + 1)
        /\ Abs(200 * sp - 2 * rec.base_price * pm) <= rec.base_price + 100

\* C20 witness: a priced day whose suggested_price is not base_price times the
\* reported multiplier
C20_Witness ==
  /\ pricedDay # Null
  /\ pricedDay[1].suggested_price #
       RoundDiv(pricedDay[1].base_price * pricedDay[1].price_multiplier, 100)

\* C12 (the claim as stated): in the contribution-margin analytics an entry, or a room
\* type of an entry, whose revenue is 0 is reported with a contribution margin of 0
C12_ZeroRevenueReportsZeroMargin ==
  contributionItem # Null =>
    LET item == contributionItem[1] IN
      /\ item.total_revenue = 0 => item.contribution_margin = Finite(0)
      /\ \A n \in 1..Len(item.room_types) :
           item.room_types[n].revenue = 0 =>
             item.room_types[n].contribution_margin = Finite(0)

\* what a call returns when it runs alone: computed from the configuration as shipped,
\* the instants its Date arguments held when it was made, and its own draws
ResultAlone(call) ==
  LET given == call.given[1]
      days == DaysOf(given.startDate, given.endDate)
      revenueData == GenerateRevenueAnalytics(roomTypes, call.hotelId, given.startDate, days,
                                              call.groupBy, call.draws[1].analytics)
  IN  IF call.kind = "getRoomTypes" THEN HotelRoomTypes(call.hotelId)
      ELSE IF call.kind = "getPricingRecommendations"
        THEN PricingRecommendations(roomTypes, call.hotelId, given.startDate, PricingDays,
                                    call.draws[1].pricing)
      ELSE IF call.kind = "getRevenueAnalytics" THEN revenueData
      ELSE IF call.kind = "getOccupancyAnalytics" THEN OccupancyAnalytics(revenueData)
      ELSE ContributionMarginAnalytics(revenueData, roomTypes, call.hotelId)

\* C16: in every interleaving of the calls in flight the room-type configuration is the
\* one shipped, the caller's startDate and endDate objects hold what they held when each
\* call was made, and every finished call has returned what it returns when run alone
\* on its own arguments and draws
C16_CallsDoNotInterfere ==
  /\ roomTypeStore = roomTypes
  /\ \A c \in Calls :
       /\ calls[c].pc # "idle" => dateObjects = calls[c].given[1]
       /\ calls[c].pc = "done" => calls[c].result = <<ResultAlone(calls[c])>>

\* C16 witness: a revenue analytics call that generated entries and a pricing call made
\* with the same Date objects have both returned
C16_Witness ==
  /\ calls[1].pc = "done" /\ calls[1].kind = "getRevenueAnalytics" /\ calls[1].hotelId = 2
  /\ calls[2].pc = "done" /\ calls[2].kind = "getPricingRecommendations"
  /\ calls[2].hotelId = 2

\* C21 (the claim as stated): in every priced day expected_bookings is the reported
\* expected_occupancy times the room type's inventory_count, rounded to 1 decimal, and
\* is at most inventory_count
C21_BookingsFromReportedOccupancy ==
  pricedDay # Null =>
    LET roomType == FindRoomType(pricedDay[1].room_type_id)[1] IN
      /\ pricedDay[1].expected_bookings =
           RoundDiv(pricedDay[1].expected_occupancy * roomType.inventory_count, 10)
      /\ pricedDay[1].expected_bookings <= 10 * roomType.inventory_count

\* C21 (amended): in every priced day expected_bookings is the occupancy before it is
\* rounded, times the room type's inventory_count, rounded to 1 decimal; it is within
\* 0.005 * inventory_count + 0.05 of the reported expected_occupancy times
\* inventory_count, and at most inventory_count
C21_BookingsFromExactOccupancy ==
  pricedDay # Null =>
    LET roomType == FindRoomType(pricedDay[1].room_type_id)[1]
        fromReported == pricedDay[1].expected_occupancy * roomType.inventory_count
    IN  /\ pricedDay[1].expected_bookings =
             RoundDiv(pricedDay[1].occupancy * roomType.inventory_count * 10, OccDen)
        /\ Abs(20 * pricedDay[1].expected_bookings - 2 * fromReported)
             <= roomType.inventory_count + 10
        /\ pricedDay[1].expected_bookings <= 10 * roomType.inventory_count

\* C21 witness: a priced day whose expected_bookings is not what the reported
\* expected_occupancy gives
C21_Witness ==
  /\ pricedDay # Null
  /\ pricedDay[1].expected_bookings #
       RoundDiv(pricedDay[1].expected_occupancy
                  * FindRoomType(pricedDay[1].room_type_id)[1].inventory_count, 10)

C23_ContributionTotalsReconcile ==
  contributionItem # Null =>
    LET item == contributionItem[1]
        N == Len(item.room_types)
        costOf == [n \in 1..N |->
                     item.room_types[n].occupied
                       * FindHotelRoomType(contributionRoomTypes,
                                           item.room_types[n].room_type_id).variable_cost]
    IN  /\ item.total_variable_cost = SumTo(costOf, N)
        /\ item.total_contribution = item.total_revenue - item.total_variable_cost
        /\ item.contribution_margin =
             DivideRounded(item.total_contribution, item.total_revenue)
        /\ SumTo([n \in 1..N |-> item.room_types[n].revenue], N) = item.total_revenue
        /\ SumTo([n \in 1..N |-> item.room_types[n].contribution], N)
             = item.total_contribution

\* C24: every operation called completes, by returning or by throwing, also while
\* another operation is in flight
C24_EveryOperationCompletes ==
  \A c \in Calls :
    (operations[c].pc # "idle")
      ~> (operations[c].pc = "done" /\ operations[c].outcome \in {"returned", "thrown"})

\* C24 witness: a contribution-margin call over three days, which awaits two timers and
\* runs the loop, and a pricing call that throws have both completed
C24_Witness ==
  /\ operations[1].pc = "done"
  /\ operations[1].kind = "getContributionMarginAnalytics"
  /\ operations[1].i = 3
  /\ operations[1].outcome = "returned"
  /\ operations[2].pc = "done"
  /\ operations[2].kind = "getPricingRecommendations"
  /\ operations[2].outcome = "thrown"

\* C25: for demand in [0, 1] the price multiplier lies in [0.6, 2.0] and the suggested
\* price between 0.6 and 2.0 times the base price, and at a lower demand the same room
\* type gets no higher multiplier and no higher suggested price
C25_MultiplierMonotoneAndBounded ==
  enginePricedDay # Null =>
    LET day == enginePricedDay[1]
        roomType == engineRoomType[1]
    IN  /\ day.price_multiplier >= 60
        /\ day.price_multiplier <= 200
        /\ 10 * day.suggested_price >= 6 * roomType.base_price
        /\ day.suggested_price <= 2 * roomType.base_price
        /\ 10 * PriceMultiplier(engineDemand) >= 6 * MultDen
        /\ PriceMultiplier(engineDemand) <= 2 * MultDen
        /\ \A lower \in 0 .. engineDemand :
             /\ PriceMultiplier(lower) <= PriceMultiplier(engineDemand)
             /\ SuggestedPrice(roomType, PriceMultiplier(lower)) <= day.suggested_price
        /\ \A lower \in DemandInputs :
             lower <= engineDemand =>
               LET atLower == PriceDay(roomType, engineDate, lower, RandDen - 1, 0, 0)
               IN  /\ atLower.price_multiplier <= day.price_multiplier
                   /\ atLower.suggested_price <= day.suggested_price

\* C25 witness: a room type with a price, priced at demand 1 with the multiplier 2.0,
\* above what it gets at demand 0
C25_Witness ==
  /\ enginePricedDay # Null
  /\ engineDemand = DemandDen
  /\ engineRoomType[1].base_price > 0
  /\ enginePricedDay[1].price_multiplier = 200
  /\ enginePricedDay[1].suggested_price = 2 * engineRoomType[1].base_price
  /\ PriceDay(engineRoomType[1], engineDate, 0, RandDen - 1, 0, 0).suggested_price
       < enginePricedDay[1].suggested_price

\* C26: for the seven room types shipped, on every day of a pricing recommendation the
\* demand lies in [0.2, 0.9], the final price is above the variable cost, the
\* contribution margin is positive and its percentage lies strictly between 0 and 100
C26_ShippedRoomTypesKeepMargin ==
  pricedDay # Null =>
    LET day == pricedDay[1] IN
      /\ 10 * day.demand >= 2 * DemandDen
      /\ 10 * day.demand <= 9 * DemandDen
      /\ day.final_price > day.variable_cost
      /\ day.contribution_margin > 0
      /\ IsFinite(day.contribution_margin_percentage)
      /\ day.contribution_margin_percentage.val > 0
      /\ day.contribution_margin_percentage.val < 10000

\* C26 witness: a day at the lowest demand, 0.2, overridden by the largest discount, 10 %
C26_Witness ==
  /\ pricedDay # Null
  /\ 10 * pricedDay[1].demand = 2 * DemandDen
  /\ pricedDay[1].is_override
  /\ pricedDay[1].adjustment = <<Adjustment(0)>>

\* C27: getRevenueAnalytics with groupBy = 'day' and startDate <= endDate a whole number
\* of days apart reports start_date = startDate and end_date = endDate and has exactly
\* one entry for each date from startDate through endDate inclusive; with no endDate it
\* covers exactly 30 consecutive dates beginning at startDate
C27_DayRangeInclusive ==
  ( /\ analyticsPc = "done"
    /\ HotelRoomTypes(analyticsArgs[1].hotelId) # <<>>
    /\ analyticsArgs[1].groupBy = "day"
    /\ \/ analyticsArgs[1].endDate = Null
       \/ /\ analyticsArgs[1].endDate # Null
          /\ analyticsArgs[1].startDate <= analyticsArgs[1].endDate[1]
          /\ (analyticsArgs[1].endDate[1] - analyticsArgs[1].startDate) % 24 = 0 ) =>
    LET startDate == analyticsArgs[1].startDate
        lastDate == IF analyticsArgs[1].endDate = Null
                      THEN AddDays(startDate, DefaultDays - 1)
                      ELSE analyticsArgs[1].endDate[1]
        dates == (lastDate - startDate) \div 24 + 1
        result == analyticsResult[1]
    IN  /\ result.start_date = ToISODate(startDate)
        /\ result.end_date = ToISODate(lastDate)
        /\ Len(result.analytics) = dates
        /\ \A n \in 1 .. Len(result.analytics) :
             ParseISODate(result.analytics[n].date)
               = ParseISODate(ToISODate(AddDays(startDate, n - 1)))

\* the room counts of an analytics entry add up over the room types rts, and its
\* occupancy_rate, in ten-thousandths, is total_occupied / total_rooms within [0, 1]
RoomCountsAddUp(item, rts) ==
  /\ Len(item.room_types) = Len(rts)
  /\ item.total_rooms = SumTo([n \in 1..Len(rts) |-> rts[n].inventory_count], Len(rts))
  /\ item.total_occupied
       = SumTo([n \in 1..Len(rts) |-> item.room_types[n].occupied], Len(rts))
  /\ \A n \in 1..Len(rts) :
       /\ item.room_types[n].rooms = rts[n].inventory_count
       /\ 0 <= item.room_types[n].occupied
       /\ item.room_types[n].occupied <= item.room_types[n].rooms
  /\ IsFinite(item.occupancy_rate)
  /\ item.occupancy_rate.val * item.total_rooms = item.total_occupied * 10000
  /\ 0 <= item.occupancy_rate.val
  /\ item.occupancy_rate.val <= 10000

\* C28: in every revenue and occupancy analytics bucket total_rooms is the sum of the
\* room types' inventory_count, total_occupied the sum of their occupied counts, every
\* room type has 0 <= occupied <= rooms, and occupancy_rate equals
\* total_occupied / total_rooms and lies in [0, 1]; the occupancy entry has the date
\* and the room counts of the revenue entry it is derived from
C28_RoomCountsAndOccupancyRate ==
  /\ revenueItem # Null => RoomCountsAddUp(revenueItem[1], contributionRoomTypes)
  /\ occupancyItem # Null =>
       /\ RoomCountsAddUp(occupancyItem[1], contributionRoomTypes)
       /\ occupancyItem[1].date = revenueItem[1].date
       /\ occupancyItem[1].total_rooms = revenueItem[1].total_rooms
       /\ occupancyItem[1].total_occupied = revenueItem[1].total_occupied
       /\ \A n \in 1..Len(revenueItem[1].room_types) :
            /\ occupancyItem[1].room_types[n].room_type_id
                 = revenueItem[1].room_types[n].room_type_id
            /\ occupancyItem[1].room_types[n].rooms = revenueItem[1].room_types[n].rooms
            /\ occupancyItem[1].room_types[n].occupied
                 = revenueItem[1].room_types[n].occupied

\* C29: once the initial check has finished, through logins, logouts and page loads,
\* isAuthenticated is true exactly when a token is stored; the dashboard is rendered
\* only while the flag is true, and after a logout not before a login completes
C29_FlagFollowsToken ==
  /\ ~isLoading => (isAuthenticated <=> token)
  /\ element = "Dashboard" => (~isLoading /\ isAuthenticated)
  /\ loggedOut => element # "Dashboard"

\* C29 witness: after a logout, with no token stored and the flag false, Login is
\* rendered and a login submitted since awaits its timer
C29_Witness ==
  /\ loggedOut
  /\ ~isLoading
  /\ ~token
  /\ ~isAuthenticated
  /\ element = "Login"
  /\ submits > 0

\* C30: for any stored preference and after any toggleTheme calls, once the effect has
\* run the document root has exactly one of the classes 'light' and 'dark', the one that
\* is the theme, and 'color-theme' holds the theme; two toggles in a row restore the theme
C30_RootClassFollowsTheme ==
  /\ (theme # Null /\ ~effectPending) =>
       /\ rootClasses \cap {"light", "dark"} = {theme[1]}
       /\ colorTheme = theme
  /\ (theme # Null /\ Len(themesBefore) = 2) => theme[1] = themesBefore[1]

====
